---- MODULE Spec2Model ----
(***************************************************************************)
(* Model of the ethr-credo-module: the schema registry client              *)
(* (EthereumSchemaRegistry), the ledger orchestration service              *)
(* (EthereumLedgerService) and the did:ethr resolver (EthereumDidResolver).*)
(*                                                                         *)
(* Strings are sequences of atoms (an atom is a character or a word);      *)
(* the atom " " is whitespace.  The JavaScript value undefined is the      *)
(* one-atom sequence Undefined, which no program string equals.            *)
(***************************************************************************)
EXTENDS Integers, Sequences, FiniteSets, TLC

VARIABLES env, chain, owner, fileServer, nextUuid, req, lastResult,
          registry, lastOp, resolution, built

vars == <<env, chain, owner, fileServer, nextUuid, req, lastResult,
          registry, lastOp, resolution, built>>

(***************************************************************************)
(* Bounds of the model.                                                    *)
(***************************************************************************)
\* how many schema ids utils.uuid() hands out in one behaviour
MaxSchemas == 2
\* longest @context list the resolution library returns
MaxCtxLen == 3

(***************************************************************************)
(* JavaScript strings.                                                     *)
(***************************************************************************)
Undefined == <<"<undefined>">>

\* !s for a string or undefined: undefined and "" are falsy
Falsy(s) == s = Undefined \/ s = <<>>

RECURSIVE TrimStart(_)
TrimStart(s) ==
  IF s = <<>> THEN <<>>
  ELSE IF Head(s) = " " THEN TrimStart(Tail(s)) ELSE s

RECURSIVE TrimEnd(_)
TrimEnd(s) ==
  IF s = <<>> THEN <<>>
  ELSE IF s[Len(s)] = " " THEN TrimEnd(SubSeq(s, 1, Len(s) - 1)) ELSE s

\* String.prototype.trim
Trim(s) == TrimEnd(TrimStart(s))

\* !s?.trim() : undefined, empty or whitespace-only
BlankOrMissing(s) == s = Undefined \/ Trim(s) = <<>>

Repeat(a, n) == [i \in 1..n |-> a]

\* String.prototype.toLowerCase, atom by atom
LowerAtom(a) ==
  CASE a = "Insufficient" -> "insufficient"
    [] a = "INSUFFICIENT" -> "insufficient"
    [] a = "Funds"        -> "funds"
    [] a = "FUNDS"        -> "funds"
    [] a = "Balance"      -> "balance"
    [] a = "Contract"     -> "contract"
    [] a = "Network"      -> "network"
    [] a = "Transaction"  -> "transaction"
    [] a = "Schema"       -> "schema"
    [] a = "Only"         -> "only"
    [] a = "Invalid"      -> "invalid"
    [] a = "RPC"          -> "rpc"
    [] a = "URL"          -> "url"
    [] a = "Signing"      -> "signing"
    [] a = "Key"          -> "key"
    [] a = "SCHEMA_EXISTS" -> "schema_exists"
    [] a = "NOT_OWNER"    -> "not_owner"
    [] a = "OUT_OF_GAS"   -> "out_of_gas"
    [] OTHER              -> a

\* a comparison that forgets to fold case
toLowerCaseKeepCase(s) == s

toLowerCase(s) == [i \in 1..Len(s) |-> LowerAtom(s[i])]

\* String.prototype.includes
includes(s, pat) ==
  \E i \in 0..(Len(s) - Len(pat)) :
    \A j \in 1..Len(pat) : s[i + j] = pat[j]

(***************************************************************************)
(* JSON.parse, as a recogniser of JSON texts: objects, string literals     *)
(* (atoms between two quote atoms) and the literals true, false, null and  *)
(* numbers, with whitespace between tokens.                                *)
(***************************************************************************)
Q == "'"
JsonLiterals == {"true", "false", "null", "0", "1"}

RECURSIVE SkipWs(_, _)
SkipWs(s, i) ==
  IF i <= Len(s) /\ s[i] = " " THEN SkipWs(s, i + 1) ELSE i

RECURSIVE StringEnd(_, _)
\* index after the closing quote of a string whose content starts at i; 0: none
StringEnd(s, i) ==
  IF i > Len(s) THEN 0
  ELSE IF s[i] = Q THEN i + 1 ELSE StringEnd(s, i + 1)

ParseString(s, i) ==
  IF i <= Len(s) /\ s[i] = Q THEN StringEnd(s, i + 1) ELSE 0

RECURSIVE ParseValue(_, _)
RECURSIVE ParseMembers(_, _)
\* index after the value that starts at i (after whitespace); 0: no value
ParseValue(s, i) ==
  LET j == SkipWs(s, i) IN
  IF j > Len(s) THEN 0
  ELSE IF s[j] = Q THEN ParseString(s, j)
  ELSE IF s[j] \in JsonLiterals THEN j + 1
  ELSE IF s[j] = "{" THEN
    LET k == SkipWs(s, j + 1) IN
    IF k <= Len(s) /\ s[k] = "}" THEN k + 1 ELSE ParseMembers(s, k)
  ELSE 0

\* members of an object from i up to and including the closing brace
ParseMembers(s, i) ==
  LET k1 == ParseString(s, SkipWs(s, i)) IN
  IF k1 = 0 THEN 0
  ELSE LET c == SkipWs(s, k1) IN
    IF ~(c <= Len(s) /\ s[c] = ":") THEN 0
    ELSE LET v == ParseValue(s, c + 1) IN
      IF v = 0 THEN 0
      ELSE LET d == SkipWs(s, v) IN
        IF d > Len(s) THEN 0
        ELSE IF s[d] = "}" THEN d + 1
        ELSE IF s[d] = "," THEN ParseMembers(s, d + 1)
        ELSE 0

\* JSON.parse(json) does not throw
JsonParses(s) ==
  LET e == ParseValue(s, 1) IN e /= 0 /\ SkipWs(s, e) = Len(s) + 1

\* JSON.stringify of a string and of a flat object given as <<key, string>> pairs
JsonString(v) == <<Q>> \o v \o <<Q>>

RECURSIVE JsonMembers(_)
JsonMembers(pairs) ==
  IF pairs = <<>> THEN <<>>
  ELSE JsonString(pairs[1][1]) \o <<":">> \o JsonString(pairs[1][2])
       \o (IF Len(pairs) > 1 THEN <<",">> ELSE <<>>)
       \o JsonMembers(Tail(pairs))

JsonStringify(pairs) == <<"{">> \o JsonMembers(pairs) \o <<"}">>

(***************************************************************************)
(* Errors.  One record shape for every thrown value: its class, message,   *)
(* code, reason (the revert reason of an ethers failure, the revertReason  *)
(* of a ContractError) and cause (the originalError of a registry error,   *)
(* the cause of a ledger error); NoCause stands for an absent cause.       *)
(***************************************************************************)
NoCause == [class |-> "<none>"]

MkError(class, message, code, reason, cause) ==
  [class |-> class, message |-> message, code |-> code, reason |-> reason,
   cause |-> cause]

\* template-literal interpolation ${x} of a string or undefined
Str(x) == IF x = Undefined THEN <<"undefined">> ELSE x

Error(message) == MkError("Error", message, Undefined, Undefined, NoCause)

TypeError(message) == MkError("TypeError", message, Undefined, Undefined, NoCause)

CredoError(message) == MkError("CredoError", message, Undefined, Undefined, NoCause)

WalletError(message) == MkError("WalletError", message, Undefined, Undefined, NoCause)

ContractError(message, revertReason, originalError) ==
  MkError("ContractError", message, <<"CONTRACT_ERROR">>, revertReason, originalError)

NetworkError(message, originalError) ==
  MkError("NetworkError", message, <<"NETWORK_ERROR">>, Undefined, originalError)

ValidationError(message) ==
  MkError("ValidationError", message, <<"VALIDATION_ERROR">>, Undefined, NoCause)

EthereumLedgerError(message, cause) ==
  MkError("EthereumLedgerError", message, Undefined, Undefined, cause)

SchemaCreationError(reason, cause) ==
  [EthereumLedgerError(<<"Schema", " ", "creation", " ", "failed.", " ", "Reason:", " ">>
                       \o reason, cause)
   EXCEPT !.class = "SchemaCreationError"]

SchemaRetrievalError(schemaId, reason, cause) ==
  [EthereumLedgerError(<<"Schema", " ", "retrieval", " ", "failed", " ", "for", " ",
                         "Schema", " ", "ID:", " ">> \o Str(schemaId)
                       \o <<".", " ", "Reason:", " ">> \o reason, cause)
   EXCEPT !.class = "SchemaRetrievalError"]

\* error instanceof EthereumLedgerError
IsEthereumLedgerError(e) ==
  e.class \in {"EthereumLedgerError", "SchemaCreationError", "SchemaRetrievalError"}

\* error instanceof Error: every class of the model but a thrown non-Error value
IsError(e) == e.class \notin {"NonError", "<none>"}

\* a settled promise / a completed call
Fulfilled(v) == [ok |-> TRUE, value |-> v, error |-> NoCause]

Rejected(e) == [ok |-> FALSE, value |-> <<>>, error |-> e]

(***************************************************************************)
(* The chain: addresses, signing keys and the registry contract.           *)
(***************************************************************************)
AddrA == <<"0xAAAA">>
AddrB == <<"0xBBBB">>
ContractAddr == <<"0xC0DE">>
EthAddresses == {AddrA, AddrB, ContractAddr}

\* ethers isAddress: a well-formed chain address
isAddress(a) == a \in EthAddresses

NoSigningKey == [present |-> FALSE, address |-> <<>>]
KeyA == [present |-> TRUE, address |-> AddrA]
KeyB == [present |-> TRUE, address |-> AddrB]

\* a transaction receipt, a receipt without hash, and wait() resolving to null
ReceiptOf(id) == [isNull |-> FALSE, hash |-> <<"0xtx">> \o id]
ReceiptNoHash == [isNull |-> FALSE, hash |-> <<>>]
ReceiptNull == [isNull |-> TRUE, hash |-> <<>>]

\* contract storage schemas[address][id]; "" when nothing is stored
RECURSIVE Stored(_, _, _)
Stored(c, address, id) ==
  IF c = <<>> THEN <<>>
  ELSE IF c[1].address = address /\ c[1].id = id THEN c[1].json
  ELSE Stored(Tail(c), address, id)

RECURSIVE IdsOf(_, _)
IdsOf(c, address) ==
  IF c = <<>> THEN <<>>
  ELSE (IF c[1].address = address THEN <<c[1].id>> ELSE <<>>) \o IdsOf(Tail(c), address)

\* a revert of the contract, as ethers throws it
Revert(reason) ==
  MkError("Error", <<"execution", " ", "reverted:", " ">> \o reason,
          <<"CALL_EXCEPTION">>, reason, NoCause)

\* failures of a contract call that come from the provider, not the contract
FundsFailure ==
  MkError("Error", <<"insufficient", " ", "funds", " ", "for", " ", "gas">>,
          <<"INSUFFICIENT_FUNDS">>, Undefined, NoCause)
BalanceFailure ==
  MkError("Error", <<"Sender", " ", "has", " ", "Insufficient", " ", "Balance">>,
          Undefined, Undefined, NoCause)
FundsReasonFailure ==
  MkError("Error", <<"cannot", " ", "estimate", " ", "gas">>,
          <<"UNPREDICTABLE_GAS_LIMIT">>, <<"INSUFFICIENT", " ", "FUNDS">>, NoCause)
NetFailure ==
  MkError("Error", <<"could", " ", "not", " ", "detect", " ", "network">>,
          <<"NETWORK_ERROR">>, Undefined, NoCause)
NetReasonFailure ==
  MkError("Error", <<"timeout">>, <<"NETWORK_ERROR">>, <<"timeout">>, NoCause)
OpaqueFailure ==
  MkError("Error", <<"insufficient", " ", "gas", " ", "funds">>, Undefined, Undefined, NoCause)
NoMessageFailure ==
  MkError("Error", Undefined, Undefined, Undefined, NoCause)
OtherRevert == Revert(<<"OUT_OF_GAS">>)

\* what tx.wait() throws when the transaction was mined under another hash
\* (repriced): the call took effect and the wait is rejected
ReplacedFailure ==
  MkError("Error", <<"transaction", " ", "was", " ", "replaced">>,
          <<"TRANSACTION_REPLACED">>, <<"repriced">>, NoCause)

ProviderFailures ==
  {FundsFailure, BalanceFailure, FundsReasonFailure, NetFailure, NetReasonFailure,
   OpaqueFailure, NoMessageFailure, OtherRevert}

\* what the environment does to one contract call: the contract runs it
\* ("contract"), or the provider fails it
CallFates == {[kind |-> "contract", failure |-> NoCause]}
             \cup {[kind |-> "fail", failure |-> f] : f \in ProviderFailures}

\* the fates of the chain write of a createSchema request
\* "mined": the contract runs the call and tx.wait() fails afterwards
LedgerFates ==
  {[kind |-> "contract", failure |-> NoCause]}
  \cup {[kind |-> "fail", failure |-> f] :
          f \in {FundsFailure, BalanceFailure, FundsReasonFailure, NetFailure,
                 OpaqueFailure}}
  \cup {[kind |-> "mined", failure |-> ReplacedFailure]}

\* how tx.wait() resolves for a mined transaction
ReceiptKinds == {"receipt", "nohash", "null"}

ReceiptFor(kind, id) ==
  CASE kind = "receipt" -> ReceiptOf(id)
    [] kind = "nohash"  -> ReceiptNoHash
    [] OTHER            -> ReceiptNull

\* contract createSchema(id, json) sent by sender: [ok, chain, error]
ContractCreateSchema(c, sender, id, json) ==
  IF Stored(c, sender, id) /= <<>>
  THEN [ok |-> FALSE, chain |-> c, error |-> Revert(<<"SCHEMA_EXISTS">>)]
  ELSE [ok |-> TRUE, error |-> NoCause,
        chain |-> Append(c, [address |-> sender, id |-> id, json |-> json])]

\* contract adminCreateSchema(address, id, json) sent by sender
ContractAdminCreateSchema(c, own, sender, address, id, json) ==
  IF sender /= own
  THEN [ok |-> FALSE, chain |-> c, error |-> Revert(<<"NOT_OWNER">>)]
  ELSE ContractCreateSchema(c, address, id, json)

\* contract transferOwnership(newOwner) sent by sender: [ok, owner, error]
ContractTransferOwnership(own, sender, newOwner) ==
  IF sender /= own
  THEN [ok |-> FALSE, owner |-> own, error |-> Revert(<<"NOT_OWNER">>)]
  ELSE [ok |-> TRUE, owner |-> newOwner, error |-> NoCause]

(***************************************************************************)
(* EthereumSchemaRegistry: the contract client wrapper.                    *)
(***************************************************************************)
MaxSchemaIdLength == 256

\* a validateConfig that lets a configuration without signing key through
validateConfigKeyOptional(config) ==
  IF Falsy(config.contractAddress) \/ ~isAddress(config.contractAddress)
  THEN ValidationError(<<"Invalid", " ", "contract", " ", "address">>)
  ELSE IF Falsy(config.rpcUrl)
  THEN ValidationError(<<"RPC", " ", "URL", " ", "is", " ", "required">>)
  ELSE NoCause

\* validateConfig: the ValidationError it throws, or NoCause
validateConfig(config) ==
  IF Falsy(config.contractAddress) \/ ~isAddress(config.contractAddress)
  THEN ValidationError(<<"Invalid", " ", "contract", " ", "address">>)
  ELSE IF Falsy(config.rpcUrl)
  THEN ValidationError(<<"RPC", " ", "URL", " ", "is", " ", "required">>)
  ELSE IF ~config.signingKey.present
  THEN ValidationError(<<"Signing", " ", "Key", " ", "is", " ", "required">>)
  ELSE NoCause

NoRegistry ==
  [constructed |-> FALSE, hasWallet |-> FALSE, signer |-> <<>>,
   contractAddress |-> <<>>, rpcUrl |-> <<>>]

\* new EthereumSchemaRegistry(config); providerOk: the ethers constructors do
\* not throw.  [ok, value: the instance, error, handles: provider/contract
\* handles whose creation was attempted]
NewRegistry(config, providerOk) ==
  LET v == validateConfig(config) IN
  IF v /= NoCause
  THEN [ok |-> FALSE, value |-> NoRegistry, error |-> v, handles |-> 0]
  ELSE IF ~providerOk
  THEN [ok |-> FALSE, value |-> NoRegistry, handles |-> 1,
        error |-> NetworkError(<<"Failed", " ", "to", " ", "initialize", " ",
                                 "EthereumSchemaManager:", " ", "bad", " ", "url">>,
                               Error(<<"bad", " ", "url">>))]
  ELSE [ok |-> TRUE, error |-> NoCause, handles |-> 2,
        value |-> [constructed |-> TRUE,
                   hasWallet |-> config.signingKey.present,
                   signer |-> config.signingKey.address,
                   contractAddress |-> config.contractAddress,
                   rpcUrl |-> config.rpcUrl]]

\* a validateSchemaId whose length limit is off by one
validateSchemaIdExclusive(schemaId) ==
  IF Falsy(schemaId) \/ Len(Trim(schemaId)) = 0
  THEN ValidationError(<<"Schema", " ", "ID", " ", "cannot", " ", "be", " ", "empty">>)
  ELSE IF Len(schemaId) >= MaxSchemaIdLength
  THEN ValidationError(<<"Schema", " ", "ID", " ", "too", " ", "long">>)
  ELSE NoCause

validateSchemaId(schemaId) ==
  IF Falsy(schemaId) \/ Len(Trim(schemaId)) = 0
  THEN ValidationError(<<"Schema", " ", "ID", " ", "cannot", " ", "be", " ", "empty">>)
  ELSE IF Len(schemaId) > MaxSchemaIdLength
  THEN ValidationError(<<"Schema", " ", "ID", " ", "too", " ", "long">>)
  ELSE NoCause

validateJson(json) ==
  IF Falsy(json) \/ Len(Trim(json)) = 0
  THEN ValidationError(<<"JSON", " ", "cannot", " ", "be", " ", "empty">>)
  ELSE IF ~JsonParses(json)
  THEN ValidationError(<<"Invalid", " ", "JSON", " ", "format">>)
  ELSE NoCause

validateAddress(address) ==
  IF Falsy(address) \/ ~isAddress(address)
  THEN ValidationError(<<"Invalid", " ", "address">>)
  ELSE NoCause

requireWallet(reg) ==
  IF ~reg.hasWallet
  THEN ValidationError(<<"Wallet", " ", "is", " ", "required", " ", "for", " ",
                         "transaction", " ", "operations">>)
  ELSE NoCause

\* the first check of a list that fails, in order, or NoCause
RECURSIVE FirstFailure(_)
FirstFailure(checks) ==
  IF checks = <<>> THEN NoCause
  ELSE IF checks[1] /= NoCause THEN checks[1] ELSE FirstFailure(Tail(checks))

\* a handleContractError that drops the failure it caught
handleContractErrorNoCause(error) ==
  IF ~Falsy(error.reason)
  THEN ContractError(<<"Contract", " ", "error:", " ">> \o error.reason, error.reason,
                     NoCause)
  ELSE IF error.code = <<"NETWORK_ERROR">>
  THEN NetworkError(<<"Network", " ", "error:", " ">> \o Str(error.message), NoCause)
  ELSE ContractError(<<"Transaction", " ", "failed:", " ">> \o Str(error.message),
                     Undefined, NoCause)

\* a handleContractError that reports every failure as a failed transaction
handleContractErrorNoReason(error) ==
  ContractError(<<"Transaction", " ", "failed:", " ">> \o Str(error.message),
                Undefined, error)

\* handleContractError: the error it throws for a caught failure
handleContractError(error) ==
  IF ~Falsy(error.reason)
  THEN CASE error.reason = <<"SCHEMA_EXISTS">> ->
              ContractError(<<"Schema", " ", "already", " ", "exists", " ", "for", " ",
                              "this", " ", "address", " ", "and", " ", "schema", " ", "ID">>,
                            error.reason, error)
         [] error.reason = <<"NOT_OWNER">> ->
              ContractError(<<"Only", " ", "contract", " ", "owner", " ", "can", " ",
                              "perform", " ", "this", " ", "action">>,
                            error.reason, error)
         [] OTHER ->
              ContractError(<<"Contract", " ", "error:", " ">> \o error.reason,
                            error.reason, error)
  ELSE IF error.code = <<"NETWORK_ERROR">>
  THEN NetworkError(<<"Network", " ", "error:", " ">> \o Str(error.message), error)
  ELSE ContractError(<<"Transaction", " ", "failed:", " ">> \o Str(error.message),
                     Undefined, error)

\* The result of a registry operation: [ok, value, error] of the call,
\* called: the contract call was issued, chain and owner after the call.
RegResult(res, called, c, own) ==
  [ok |-> res.ok, value |-> res.value, error |-> res.error,
   called |-> called, chain |-> c, owner |-> own]

\* EthereumSchemaRegistry.createSchema(schemaId, json) under a call fate
RegistryCreateSchema(reg, c, own, schemaId, json, fate, receiptKind) ==
  LET v == FirstFailure(<<requireWallet(reg), validateSchemaId(schemaId),
                          validateJson(json)>>) IN
  IF v /= NoCause THEN RegResult(Rejected(v), FALSE, c, own)
  ELSE IF fate.kind = "fail"
  THEN RegResult(Rejected(handleContractError(fate.failure)), TRUE, c, own)
  ELSE LET r == ContractCreateSchema(c, reg.signer, schemaId, json) IN
    IF r.ok /\ fate.kind = "mined"
    THEN RegResult(Rejected(handleContractError(fate.failure)), TRUE, r.chain, own)
    ELSE IF r.ok
    THEN RegResult(Fulfilled(ReceiptFor(receiptKind, schemaId)), TRUE, r.chain, own)
    ELSE RegResult(Rejected(handleContractError(r.error)), TRUE, c, own)

\* EthereumSchemaRegistry.adminCreateSchema(address, schemaId, json)
RegistryAdminCreateSchema(reg, c, own, address, schemaId, json, fate, receiptKind) ==
  LET v == FirstFailure(<<requireWallet(reg), validateAddress(address),
                          validateSchemaId(schemaId), validateJson(json)>>) IN
  IF v /= NoCause THEN RegResult(Rejected(v), FALSE, c, own)
  ELSE IF fate.kind = "fail"
  THEN RegResult(Rejected(handleContractError(fate.failure)), TRUE, c, own)
  ELSE LET r == ContractAdminCreateSchema(c, own, reg.signer, address, schemaId, json) IN
    IF r.ok
    THEN RegResult(Fulfilled(ReceiptFor(receiptKind, schemaId)), TRUE, r.chain, own)
    ELSE RegResult(Rejected(handleContractError(r.error)), TRUE, c, own)

\* the value null
Null == <<"<null>">>

\* a getSchema that hands back whatever the contract returns
RegistryGetSchemaRaw(reg, c, own, address, schemaId, fate) ==
  LET v == FirstFailure(<<validateAddress(address), validateSchemaId(schemaId)>>) IN
  IF v /= NoCause THEN RegResult(Rejected(v), FALSE, c, own)
  ELSE IF fate.kind = "fail"
  THEN RegResult(Rejected(handleContractError(fate.failure)), TRUE, c, own)
  ELSE RegResult(Fulfilled(Stored(c, address, schemaId)), TRUE, c, own)

\* EthereumSchemaRegistry.getSchema(address, schemaId)
RegistryGetSchema(reg, c, own, address, schemaId, fate) ==
  LET v == FirstFailure(<<validateAddress(address), validateSchemaId(schemaId)>>) IN
  IF v /= NoCause THEN RegResult(Rejected(v), FALSE, c, own)
  ELSE IF fate.kind = "fail"
  THEN RegResult(Rejected(handleContractError(fate.failure)), TRUE, c, own)
  ELSE LET schema == Stored(c, address, schemaId) IN
    IF Falsy(schema) \/ Len(Trim(schema)) = 0
    THEN RegResult(Fulfilled(Null), TRUE, c, own)
    ELSE RegResult(Fulfilled(schema), TRUE, c, own)

\* EthereumSchemaRegistry.getSchemaIds(address)
RegistryGetSchemaIds(reg, c, own, address, fate) ==
  LET v == validateAddress(address) IN
  IF v /= NoCause THEN RegResult(Rejected(v), FALSE, c, own)
  ELSE IF fate.kind = "fail"
  THEN RegResult(Rejected(handleContractError(fate.failure)), TRUE, c, own)
  ELSE RegResult(Fulfilled(IdsOf(c, address)), TRUE, c, own)

\* EthereumSchemaRegistry.getOwner()
RegistryGetOwner(reg, c, own, fate) ==
  IF fate.kind = "fail"
  THEN RegResult(Rejected(handleContractError(fate.failure)), TRUE, c, own)
  ELSE RegResult(Fulfilled(own), TRUE, c, own)

\* EthereumSchemaRegistry.transferOwnership(newOwner)
RegistryTransferOwnership(reg, c, own, newOwner, fate, receiptKind) ==
  LET v == FirstFailure(<<requireWallet(reg), validateAddress(newOwner)>>) IN
  IF v /= NoCause THEN RegResult(Rejected(v), FALSE, c, own)
  ELSE IF fate.kind = "fail"
  THEN RegResult(Rejected(handleContractError(fate.failure)), TRUE, c, own)
  ELSE LET r == ContractTransferOwnership(own, reg.signer, newOwner) IN
    IF r.ok
    THEN RegResult(Fulfilled(ReceiptFor(receiptKind, <<"own">>)), TRUE, c, r.owner)
    ELSE RegResult(Rejected(handleContractError(r.error)), TRUE, c, own)

(***************************************************************************)
(* The agent's environment: module configuration, DID records, wallet.     *)
(***************************************************************************)
GoodEnv ==
  [schemaManagerContractAddress |-> ContractAddr,
   rpcUrl |-> <<"https://rpc">>,
   fileServerUrl |-> <<"https://files">>,
   fileServerToken |-> <<"token">>]

\* the configurations the service is constructed with
Envs ==
  {GoodEnv,
   [GoodEnv EXCEPT !.schemaManagerContractAddress = Undefined],
   [GoodEnv EXCEPT !.schemaManagerContractAddress = <<"not-an-address">>],
   [GoodEnv EXCEPT !.rpcUrl = Undefined],
   [GoodEnv EXCEPT !.rpcUrl = <<>>],
   [GoodEnv EXCEPT !.fileServerUrl = Undefined],
   [GoodEnv EXCEPT !.fileServerToken = Undefined]}

\* the wallet of the agent context a call is made with
WalletTypes == {"AskarWallet", "AskarProfileWallet", "InMemoryWallet"}

HexByteAtoms == {"02", "aa", "bb", "cc"}
HexA == <<"02", "aa">>
HexNoKey == <<"02", "cc">>
AcctA == <<"eip155", ":", "1", ":", "0xAAAA">>
AcctB == <<"eip155", ":", "1", ":", "0xBBBB">>

DidGood == <<"did:ethr:", "0xAAAA">>
DidUnknown == <<"did:ethr:", "0x1111">>
DidNoVM == <<"did:ethr:", "novm">>
DidNoHex == <<"did:ethr:", "nohex">>
DidBadHex == <<"did:ethr:", "badhex">>
DidNoKey == <<"did:ethr:", "0xBBBB">>

VM(blockchainAccountId, publicKeyHex) ==
  [blockchainAccountId |-> blockchainAccountId, publicKeyHex |-> publicKeyHex]

\* didRepository.findCreatedDid: the stored record of a DID
DidRecords(did) ==
  CASE did = DidGood ->
         [found |-> TRUE, hasVM |-> TRUE,
          vms |-> <<VM(AcctA, Undefined), VM(Undefined, HexA)>>]
    [] did = DidNoVM ->
         [found |-> TRUE, hasVM |-> FALSE, vms |-> <<>>]
    [] did = DidNoHex ->
         [found |-> TRUE, hasVM |-> TRUE, vms |-> <<VM(AcctA, Undefined)>>]
    [] did = DidBadHex ->
         [found |-> TRUE, hasVM |-> TRUE, vms |-> <<VM(AcctA, <<"zz">>)>>]
    [] did = DidNoKey ->
         [found |-> TRUE, hasVM |-> TRUE, vms |-> <<VM(AcctB, HexNoKey)>>]
    [] OTHER ->
         [found |-> FALSE, hasVM |-> FALSE, vms |-> <<>>]

\* TypedArrayEncoder.fromHex: the bytes of the leading well-formed hex pairs
RECURSIVE fromHex(_)
fromHex(h) ==
  IF h = <<>> \/ Head(h) \notin HexByteAtoms THEN <<>>
  ELSE <<Head(h)>> \o fromHex(Tail(h))

\* TypedArrayEncoder.toBase58
toBase58(bytes) == IF bytes = <<>> THEN <<>> ELSE <<"z58:">> \o bytes

\* session.fetchKey({name}): the key entry stored under a public key
WalletKey(publicKeyBase58) ==
  IF publicKeyBase58 = toBase58(fromHex(HexA)) THEN KeyA ELSE NoSigningKey

\* getPreferredKey: the blockchainAccountId of the first verification method
\* that exposes one
RECURSIVE getPreferredKey(_)
getPreferredKey(vms) ==
  IF vms = <<>> THEN Undefined
  ELSE IF vms[1].blockchainAccountId /= Undefined THEN vms[1].blockchainAccountId
  ELSE getPreferredKey(Tail(vms))

\* parseAddress: the address segment of a blockchain account id
parseAddress(blockchainAccountId) == <<blockchainAccountId[Len(blockchainAccountId)]>>

\* verificationMethod.find((obj) => obj.publicKeyHex)
RECURSIVE findKeyObj(_)
findKeyObj(vms) ==
  IF vms = <<>> THEN Undefined
  ELSE IF ~Falsy(vms[1].publicKeyHex) THEN vms[1].publicKeyHex
  ELSE findKeyObj(Tail(vms))

\* what the DID-record store does to one lookup
StoreFaults == {"none", "error", "nonError"}

NonErrorValue ==
  MkError("NonError", <<"store", " ", "closed">>, Undefined, Undefined, NoCause)

NoKeyResult == [publicKeyBase58 |-> <<>>, blockchainAccountId |-> Undefined]

\* EthereumLedgerService.getPublicKeyFromDid
getPublicKeyFromDid(did, storeFault) ==
  IF storeFault = "error"
  THEN [ok |-> FALSE, value |-> NoKeyResult,
        error |-> Error(<<"record", " ", "store", " ", "unavailable">>)]
  ELSE IF storeFault = "nonError"
  THEN [ok |-> FALSE, value |-> NoKeyResult, error |-> NonErrorValue]
  ELSE LET didRecord == DidRecords(did) IN
    IF ~didRecord.found
    THEN [ok |-> FALSE, value |-> NoKeyResult,
          error |-> CredoError(<<"DidRecord", " ", "not", " ", "found">>)]
    ELSE IF ~didRecord.hasVM
    THEN [ok |-> FALSE, value |-> NoKeyResult,
          error |-> CredoError(<<"VerificationMethod", " ", "not", " ", "found", " ",
                                 "cannot", " ", "get", " ", "public", " ", "key">>)]
    ELSE LET keyHex == findKeyObj(didRecord.vms) IN
      IF Falsy(keyHex)
      THEN [ok |-> FALSE, value |-> NoKeyResult,
            error |-> CredoError(<<"Public", " ", "Key", " ", "hex", " ", "not", " ",
                                   "found", " ", "in", " ", "wallet", " ", "for", " ",
                                   "did:", " ">> \o did)]
      ELSE [ok |-> TRUE, error |-> NoCause,
            value |-> [publicKeyBase58 |-> toBase58(fromHex(keyHex)),
                       blockchainAccountId |-> getPreferredKey(didRecord.vms)]]

\* EthereumLedgerService.getSigningKey
getSigningKey(walletType, publicKeyBase58) ==
  IF walletType \notin {"AskarWallet", "AskarProfileWallet"}
  THEN [ok |-> FALSE, value |-> NoSigningKey,
        error |-> CredoError(<<"Incorrect", " ", "wallet", " ", "type">>)]
  ELSE IF ~WalletKey(publicKeyBase58).present
  THEN [ok |-> FALSE, value |-> NoSigningKey,
        error |-> WalletError(<<"Key", " ", "not", " ", "found", " ", "in", " ", "wallet">>)]
  ELSE [ok |-> TRUE, value |-> WalletKey(publicKeyBase58), error |-> NoCause]

(***************************************************************************)
(* Resource builders (schemaHelper).                                       *)
(***************************************************************************)
UndefinedObject == [defined |-> FALSE, props |-> {}]
EmptyObject == [defined |-> TRUE, props |-> {}]
SchemaA == [defined |-> TRUE, props |-> {<<"name", "a">>}]
SchemaB == [defined |-> TRUE, props |-> {<<"name", "b">>, <<"age", "1">>}]

\* Object.keys(schema).length
KeyCount(schema) == Cardinality({p[1] : p \in schema.props})

\* String(schema) of a plain object
StringOf(schema) ==
  IF schema.defined THEN <<"[object Object]">> ELSE <<"undefined">>

\* keccak256(input).toString('hex'): a collision-free digest of its input
keccak256Hex(input) == <<"keccak256(">> \o input \o <<")">>

\* a builder that names the resource after the schema instead of its id
buildSchemaResourceByName(did, schemaId, name, schema, address, now) ==
  LET checksum == keccak256Hex(StringOf(schema)) IN
  Fulfilled(<< <<<<"resourceURI">>, did \o <<"/resources/">> \o name>>,
               <<<<"resourceCollectionId">>, address>>,
               <<<<"resourceId">>, name>>,
               <<<<"resourceName">>, name>>,
               <<<<"resourceType">>, <<"W3C-schema">> >>,
               <<<<"mediaType">>, <<>> >>,
               <<<<"created">>, now>>,
               <<<<"checksum">>, checksum>>,
               <<<<"previousVersionId">>, <<>> >>,
               <<<<"nextVersionId">>, <<>> >> >>)

\* buildSchemaResource: [ok, value: the payload as <<key, value>> pairs, error]
buildSchemaResource(did, schemaId, name, schema, address, now) ==
  LET checksum == keccak256Hex(StringOf(schema)) IN
  IF Falsy(checksum)
  THEN Rejected(Error(<<"Error", " ", "while", " ", "calculating", " ", "checksum!">>))
  ELSE Fulfilled(<< <<<<"resourceURI">>, did \o <<"/resources/">> \o schemaId>>,
                    <<<<"resourceCollectionId">>, address>>,
                    <<<<"resourceId">>, schemaId>>,
                    <<<<"resourceName">>, name>>,
                    <<<<"resourceType">>, <<"W3C-schema">> >>,
                    <<<<"mediaType">>, <<>> >>,
                    <<<<"created">>, now>>,
                    <<<<"checksum">>, checksum>>,
                    <<<<"previousVersionId">>, <<>> >>,
                    <<<<"nextVersionId">>, <<>> >> >>)

\* uploadSchemaFile under a file-server fate (serverOk: the POST answers 2xx):
\* [ok, value, error, posted: the POST was sent]
uploadSchemaFile(schemaId, schema, fileServerUrl, fileServerToken, serverOk) ==
  IF Falsy(schemaId) \/ KeyCount(schema) = 0
  THEN [ok |-> FALSE, value |-> <<>>, posted |-> FALSE,
        error |-> Error(<<"Error", " ", "occurred", " ", "in", " ", "uploadSchemaFile", " ",
                          "function", " ", "Error:", " ", "Schema", " ", "resource", " ",
                          "id", " ", "and", " ", "schema", " ", "are", " ", "required!">>)]
  ELSE IF ~serverOk
  THEN [ok |-> FALSE, value |-> <<>>, posted |-> TRUE,
        error |-> Error(<<"Error", " ", "occurred", " ", "in", " ", "uploadSchemaFile", " ",
                          "function", " ", "AxiosError:", " ", "Request", " ", "failed">>)]
  ELSE [ok |-> TRUE, value |-> <<"201">>, posted |-> TRUE, error |-> NoCause]

(***************************************************************************)
(* EthereumLedgerService.createSchema.                                     *)
(***************************************************************************)
Digits == <<"1", "2", "3", "4", "5", "6", "7", "8", "9">>

\* a generator that hands out the same identifier every time
uuidRepeating(n) == <<"uuid-", Digits[1]>>

\* utils.uuid(): the n-th identifier handed out
uuid(n) == <<"uuid-", Digits[n]>>

Timestamps == {<<"2026-01-01T00:00:00.000Z">>}

NoReceipt == [isNull |-> TRUE, hash |-> <<>>]

\* a promise of Promise.allSettled: pending, or settled as fulfilled/rejected
Pending == [settled |-> FALSE, ok |-> FALSE, receipt |-> NoReceipt, error |-> NoCause]

Settle(res) ==
  [settled |-> TRUE, ok |-> res.ok, error |-> res.error,
   receipt |-> IF res.ok THEN res.value ELSE NoReceipt]

SettleUpload(res) ==
  [settled |-> TRUE, ok |-> res.ok, error |-> res.error, receipt |-> NoReceipt]

\* a configuration check that forgets the file-server token
ConfigMissingNoToken(e) ==
  Falsy(e.schemaManagerContractAddress) \/ Falsy(e.rpcUrl) \/ Falsy(e.fileServerUrl)

\* the configuration check of createSchema
ConfigMissing(e) ==
  Falsy(e.schemaManagerContractAddress) \/ Falsy(e.rpcUrl)
  \/ Falsy(e.fileServerUrl) \/ Falsy(e.fileServerToken)

\* the input checks of createSchema, in order: the error thrown, or NoCause
ValidateCreateInputs(did, schemaName, schema) ==
  IF BlankOrMissing(did)
  THEN SchemaCreationError(<<"DID", " ", "is", " ", "required", " ", "and", " ",
                             "cannot", " ", "be", " ", "empty">>, NoCause)
  ELSE IF BlankOrMissing(schemaName)
  THEN SchemaCreationError(<<"Schema", " ", "name", " ", "is", " ", "required", " ",
                             "and", " ", "cannot", " ", "be", " ", "empty">>, NoCause)
  ELSE IF ~schema.defined \/ KeyCount(schema) = 0
  THEN SchemaCreationError(<<"Schema", " ", "must", " ", "be", " ", "a", " ", "valid", " ",
                             "object", " ", "and", " ", "not", " ", "empty">>, NoCause)
  ELSE NoCause

\* a catch clause that wraps every thrown value, the service's own errors included
CreateCatchWrapAll(error) ==
  [class |-> "SchemaCreationError",
   message |-> <<"Schema", " ", "creation", " ", "failed.", " ", "Reason:", " ">>
               \o (IF IsError(error) THEN error.message
                   ELSE <<"Unknown", " ", "error", " ", "occurred">>),
   code |-> Undefined, reason |-> Undefined,
   cause |-> IF IsError(error) THEN error ELSE NoCause]

\* the catch clause of createSchema: what escapes for a value thrown in the try
CreateCatch(error) ==
  IF IsEthereumLedgerError(error) THEN error
  ELSE SchemaCreationError(
         IF IsError(error) THEN error.message
         ELSE <<"Unknown", " ", "error", " ", "occurred">>,
         IF IsError(error) THEN error ELSE NoCause)

\* How far a createSchema call got before it threw, and what it threw.
\* escaped: the error that reaches the caller; thrown: the value first thrown.
Threw(stage, thrown, inTry, didLookups, walletQueried, handles) ==
  [failed |-> TRUE, stage |-> stage, thrown |-> thrown,
   escaped |-> IF inTry THEN CreateCatch(thrown) ELSE thrown,
   inTry |-> inTry, didLookups |-> didLookups, walletQueried |-> walletQueried,
   handles |-> handles, reg |-> NoRegistry, schemaId |-> <<>>, json |-> <<>>]

\* createSchema from its entry to the point where both calls are to be issued
CreateSchemaPrefix(e, did, schemaName, schema, walletType, storeFault, providerOk, n, now) ==
  IF ConfigMissing(e)
  THEN Threw("config",
             SchemaCreationError(<<"schemaManagerContractAddress,", " ", "rpcUrl,", " ",
                                   "fileServeUrl", " ", "and", " ", "fileServerToken", " ",
                                   "must", " ", "be", " ", "defined">>, NoCause),
             FALSE, 0, FALSE, 0)
  ELSE IF ValidateCreateInputs(did, schemaName, schema) /= NoCause
  THEN Threw("input", ValidateCreateInputs(did, schemaName, schema), FALSE, 0, FALSE, 0)
  ELSE LET keyResult == getPublicKeyFromDid(did, storeFault) IN
    IF ~keyResult.ok THEN Threw("didLookup", keyResult.error, TRUE, 1, FALSE, 0)
    ELSE IF Falsy(keyResult.value.publicKeyBase58)
    THEN Threw("publicKey",
               CredoError(<<"Public", " ", "Key", " ", "not", " ", "found", " ", "in", " ",
                            "wallet">>), TRUE, 1, FALSE, 0)
    ELSE LET signingKey == getSigningKey(walletType, keyResult.value.publicKeyBase58) IN
      IF ~signingKey.ok
      THEN Threw("signer", signingKey.error, TRUE, 1,
                 walletType \in {"AskarWallet", "AskarProfileWallet"}, 0)
      ELSE LET ethSchemaRegistry ==
                 NewRegistry([contractAddress |-> e.schemaManagerContractAddress,
                              rpcUrl |-> e.rpcUrl,
                              signingKey |-> signingKey.value], providerOk) IN
        IF ~ethSchemaRegistry.ok
        THEN Threw("registry", ethSchemaRegistry.error, TRUE, 1, TRUE,
                   ethSchemaRegistry.handles)
        ELSE IF keyResult.value.blockchainAccountId = Undefined
        THEN Threw("address",
                   TypeError(<<"Cannot", " ", "read", " ", "properties", " ", "of", " ",
                               "undefined">>), TRUE, 1, TRUE, 2)
        ELSE LET schemaId == uuid(n)
                 address == parseAddress(keyResult.value.blockchainAccountId)
                 schemaResource ==
                   buildSchemaResource(did, schemaId, schemaName, schema, address, now)
             IN
          IF ~schemaResource.ok
          THEN Threw("resource", schemaResource.error, TRUE, 1, TRUE, 2)
          ELSE [failed |-> FALSE, stage |-> "issued", thrown |-> NoCause,
                escaped |-> NoCause, inTry |-> TRUE, didLookups |-> 1,
                walletQueried |-> TRUE, handles |-> 2,
                reg |-> ethSchemaRegistry.value, schemaId |-> schemaId,
                json |-> JsonStringify(schemaResource.value)]

\* reason?.message || reason?.toString() || ''
ReasonText(reason) ==
  IF ~Falsy(reason.message) THEN reason.message ELSE <<reason.class>>

NoValue == [did |-> <<>>, schemaId |-> <<>>, schemaTxnHash |-> <<>>]

\* a join that treats a rejected upload as fatal (Promise.all semantics)
CreateSchemaJoinUploadFatal(did, schemaId, blockchainResponse, uploadResponse) ==
  IF ~uploadResponse.ok
  THEN [ok |-> FALSE, value |-> [did |-> <<>>, schemaId |-> <<>>, schemaTxnHash |-> <<>>],
        thrown |-> uploadResponse.error]
  ELSE IF blockchainResponse.ok /\ ~blockchainResponse.receipt.isNull
          /\ blockchainResponse.receipt.hash /= <<>>
  THEN [ok |-> TRUE, thrown |-> NoCause,
        value |-> [did |-> did, schemaId |-> schemaId,
                   schemaTxnHash |-> blockchainResponse.receipt.hash]]
  ELSE [ok |-> FALSE, value |-> [did |-> <<>>, schemaId |-> <<>>, schemaTxnHash |-> <<>>],
        thrown |-> EthereumLedgerError(<<"Blockchain", " ", "transaction", " ", "failed">>,
                                       blockchainResponse.error)]

\* createSchema after Promise.allSettled: [ok, value, thrown]
CreateSchemaJoin(did, schemaId, blockchainResponse, uploadResponse) ==
  IF ~blockchainResponse.ok
  THEN LET reason == blockchainResponse.error
           errMsg == toLowerCase(ReasonText(reason)) IN
    IF includes(errMsg, <<"insufficient", " ", "funds">>)
       \/ includes(errMsg, <<"insufficient", " ", "balance">>)
    THEN [ok |-> FALSE, value |-> NoValue,
          thrown |-> SchemaCreationError(<<"Insufficient", " ", "funds", " ", "to", " ",
                                           "pay", " ", "for", " ", "gas", " ", "fees">>,
                                         reason)]
    ELSE [ok |-> FALSE, value |-> NoValue,
          thrown |-> SchemaCreationError(<<"Blockchain", " ", "transaction", " ",
                                           "failed">>, reason)]
  ELSE LET result == blockchainResponse.receipt IN
    IF result.isNull
    THEN [ok |-> FALSE, value |-> NoValue,
          thrown |-> TypeError(<<"Cannot", " ", "read", " ", "properties", " ", "of", " ",
                                 "null">>)]
    ELSE IF Falsy(result.hash)
    THEN [ok |-> FALSE, value |-> NoValue,
          thrown |-> SchemaCreationError(<<"Invalid", " ", "response", " ", "from", " ",
                                           "blockchain">>, NoCause)]
    ELSE [ok |-> TRUE, thrown |-> NoCause,
          value |-> [did |-> did, schemaId |-> schemaId, schemaTxnHash |-> result.hash]]

(***************************************************************************)
(* EthereumLedgerService.getSchemaByDidAndSchemaId.                        *)
(***************************************************************************)
\* a catch clause that lets foreign errors through unwrapped
RetrieveCatchRethrow(schemaId, error) == error

\* the catch clause of getSchemaByDidAndSchemaId
RetrieveCatch(schemaId, error) ==
  IF IsEthereumLedgerError(error) THEN error
  ELSE SchemaRetrievalError(schemaId,
         IF IsError(error) THEN error.message
         ELSE <<"Unknown", " ", "error", " ", "occurred">>,
         IF IsError(error) THEN error ELSE NoCause)

GetThrew(schemaId, stage, thrown, inTry, didLookups, handles, called) ==
  [ok |-> FALSE, text |-> <<>>, stage |-> stage, thrown |-> thrown,
   escaped |-> IF inTry THEN RetrieveCatch(schemaId, thrown) ELSE thrown,
   inTry |-> inTry, didLookups |-> didLookups, handles |-> handles, called |-> called]

\* getSchemaByDidAndSchemaId(agentContext, did, schemaId)
GetSchemaByDidAndSchemaId(e, c, own, did, schemaId, storeFault, providerOk, fate) ==
  IF BlankOrMissing(did)
  THEN GetThrew(schemaId, "input",
                SchemaRetrievalError(schemaId, <<"DID", " ", "is", " ", "required", " ",
                                                 "and", " ", "cannot", " ", "be", " ",
                                                 "empty">>, NoCause),
                FALSE, 0, 0, FALSE)
  ELSE IF BlankOrMissing(schemaId)
  THEN GetThrew(schemaId, "input",
                SchemaRetrievalError(schemaId, <<"Schema", " ", "ID", " ", "is", " ",
                                                 "required", " ", "and", " ", "cannot", " ",
                                                 "be", " ", "empty">>, NoCause),
                FALSE, 0, 0, FALSE)
  ELSE IF Falsy(e.schemaManagerContractAddress) \/ Falsy(e.rpcUrl)
  THEN GetThrew(schemaId, "config",
                SchemaCreationError(<<"schemaManagerContractAddress", " ", "and", " ",
                                      "rpcUrl", " ", "must", " ", "be", " ", "defined">>,
                                    NoCause),
                TRUE, 0, 0, FALSE)
  ELSE LET ethSchemaRegistry ==
             NewRegistry([contractAddress |-> e.schemaManagerContractAddress,
                          rpcUrl |-> e.rpcUrl,
                          signingKey |-> NoSigningKey], providerOk) IN
    IF ~ethSchemaRegistry.ok
    THEN GetThrew(schemaId, "registry", ethSchemaRegistry.error, TRUE, 0,
                  ethSchemaRegistry.handles, FALSE)
    ELSE LET keyResult == getPublicKeyFromDid(did, storeFault) IN
      IF ~keyResult.ok
      THEN GetThrew(schemaId, "didLookup", keyResult.error, TRUE, 1, 2, FALSE)
      ELSE IF keyResult.value.blockchainAccountId = Undefined
      THEN GetThrew(schemaId, "address",
                    TypeError(<<"Cannot", " ", "read", " ", "properties", " ", "of", " ",
                                "undefined">>), TRUE, 1, 2, FALSE)
      ELSE LET address == parseAddress(keyResult.value.blockchainAccountId)
               response == RegistryGetSchema(ethSchemaRegistry.value, c, own, address,
                                             schemaId, fate) IN
        IF ~response.ok
        THEN GetThrew(schemaId, "lookup", response.error, TRUE, 1, 2, response.called)
        ELSE IF response.value = Null
        THEN GetThrew(schemaId, "lookup",
                      SchemaRetrievalError(schemaId, <<"Schema", " ", "not", " ", "found",
                                                       " ", "on", " ", "ledger">>, NoCause),
                      TRUE, 1, 2, TRUE)
        ELSE [ok |-> TRUE, text |-> response.value, stage |-> "returned",
              thrown |-> NoCause, escaped |-> NoCause, inTry |-> TRUE,
              didLookups |-> 1, handles |-> 2, called |-> TRUE]

(***************************************************************************)
(* The ledger service as a state machine.                                  *)
(***************************************************************************)
Requests == {"r1", "r2"}

IdleReq ==
  [pc |-> "idle", did |-> <<>>, schemaName |-> <<>>, schema |-> UndefinedObject,
   schemaId |-> <<>>, json |-> <<>>, reg |-> NoRegistry,
   walletType |-> "none", chainRes |-> Pending, uploadRes |-> Pending,
   chainCalled |-> FALSE, posted |-> FALSE]

\* the last completed call of the service, as its caller and its collaborators saw it
NoResult ==
  [op |-> "none", did |-> <<>>, schemaName |-> <<>>, schema |-> UndefinedObject,
   schemaIdArg |-> <<>>, walletType |-> "none", storeFault |-> "none",
   providerOk |-> TRUE, fateKind |-> "contract", ok |-> FALSE, value |-> NoValue, text |-> <<>>,
   error |-> NoCause, thrown |-> NoCause, inTry |-> FALSE, stage |-> "none",
   didLookups |-> 0, walletQueried |-> FALSE, handles |-> 0,
   chainCalled |-> FALSE, posted |-> FALSE,
   chainRes |-> Pending, uploadRes |-> Pending, schemaId |-> <<>>, json |-> <<>>]

\* the inputs createSchema is called with
GoodName == <<"Degree">>
GoodCreate == [did |-> DidGood, schemaName |-> GoodName, schema |-> SchemaA]
CreateInputs ==
  {[GoodCreate EXCEPT !.did = d] :
      d \in {Undefined, <<>>, <<" ", " ">>, DidGood, DidUnknown, DidNoVM, DidNoHex,
             DidBadHex, DidNoKey}}
  \cup {[GoodCreate EXCEPT !.schemaName = n] : n \in {Undefined, <<>>, <<" ">>}}
  \cup {[GoodCreate EXCEPT !.schema = x] : x \in {UndefinedObject, EmptyObject}}
  \cup {[did |-> <<" ">>, schemaName |-> <<>>, schema |-> EmptyObject],
        [did |-> DidUnknown, schemaName |-> Undefined, schema |-> EmptyObject]}

\* a call of createSchema: its inputs, the wallet of its agent context, and
\* what the record store and the provider constructor do during it
CreateCalls ==
  {[opts |-> o, walletType |-> "AskarWallet", storeFault |-> "none", providerOk |-> TRUE] :
      o \in CreateInputs}
  \cup {[opts |-> GoodCreate, walletType |-> w, storeFault |-> "none",
         providerOk |-> TRUE] : w \in WalletTypes}
  \cup {[opts |-> GoodCreate, walletType |-> "AskarWallet", storeFault |-> f,
         providerOk |-> TRUE] : f \in StoreFaults}
  \cup {[opts |-> GoodCreate, walletType |-> "AskarWallet", storeFault |-> "none",
         providerOk |-> FALSE],
        [opts |-> [GoodCreate EXCEPT !.did = <<>>], walletType |-> "InMemoryWallet",
         storeFault |-> "error", providerOk |-> FALSE]}

\* createSchema is called and runs up to Promise.allSettled: it throws, or it
\* issues the chain write and the upload
CreateSchemaCall(r, call, now) ==
  LET opts == call.opts
      p == CreateSchemaPrefix(env, opts.did, opts.schemaName, opts.schema,
                              call.walletType, call.storeFault, call.providerOk,
                              nextUuid, now) IN
  /\ req[r].pc = "idle"
  /\ p.failed \/ nextUuid <= MaxSchemas
  /\ IF p.failed
     THEN /\ lastResult' =
               [NoResult EXCEPT !.op = "createSchema", !.did = opts.did,
                                !.schemaName = opts.schemaName, !.schema = opts.schema,
                                !.walletType = call.walletType,
                                !.storeFault = call.storeFault,
                                !.providerOk = call.providerOk,
                                !.error = p.escaped, !.thrown = p.thrown,
                                !.inTry = p.inTry, !.stage = p.stage,
                                !.didLookups = p.didLookups,
                                !.walletQueried = p.walletQueried,
                                !.handles = p.handles]
          /\ UNCHANGED <<req, nextUuid>>
     ELSE /\ req' = [req EXCEPT ![r] =
                       [IdleReq EXCEPT !.pc = "pending", !.did = opts.did,
                                       !.schemaName = opts.schemaName,
                                       !.schema = opts.schema,
                                       !.walletType = call.walletType,
                                       !.schemaId = p.schemaId, !.json = p.json,
                                       !.reg = p.reg]]
          /\ nextUuid' = nextUuid + 1
          /\ lastResult' = NoResult
  /\ UNCHANGED <<env, chain, owner, fileServer, registry, lastOp, resolution, built>>

\* the chain write of a pending createSchema settles
ChainSettle(r, fate, receiptKind) ==
  LET res == RegistryCreateSchema(req[r].reg, chain, owner, req[r].schemaId,
                                  req[r].json, fate, receiptKind) IN
  /\ req[r].pc = "pending"
  /\ ~req[r].chainRes.settled
  /\ chain' = res.chain
  /\ req' = [req EXCEPT ![r].chainRes = Settle(res), ![r].chainCalled = res.called]
  /\ UNCHANGED <<env, owner, fileServer, nextUuid, lastResult, registry, lastOp,
                 resolution, built>>

\* the upload of a pending createSchema settles
UploadSettle(r, serverOk) ==
  LET res == uploadSchemaFile(req[r].schemaId, req[r].schema, env.fileServerUrl,
                              env.fileServerToken, serverOk) IN
  /\ req[r].pc = "pending"
  /\ ~req[r].uploadRes.settled
  /\ fileServer' = IF res.ok
                   THEN fileServer \cup {[schemaId |-> req[r].schemaId,
                                          schema |-> req[r].schema]}
                   ELSE fileServer
  /\ req' = [req EXCEPT ![r].uploadRes = SettleUpload(res), ![r].posted = res.posted]
  /\ UNCHANGED <<env, chain, owner, nextUuid, lastResult, registry, lastOp, resolution, built>>

\* a return that takes the uploaded schema back when the chain write was rejected
CreateSchemaReturnCompensating(r) ==
  LET j == CreateSchemaJoin(req[r].did, req[r].schemaId, req[r].chainRes,
                            req[r].uploadRes) IN
  /\ req[r].pc = "pending"
  /\ req[r].chainRes.settled
  /\ req[r].uploadRes.settled
  /\ lastResult' =
       [NoResult EXCEPT !.op = "createSchema", !.did = req[r].did,
                        !.schemaName = req[r].schemaName, !.schema = req[r].schema,
                        !.walletType = req[r].walletType,
                        !.ok = j.ok, !.value = j.value,
                        !.error = IF j.ok THEN NoCause ELSE CreateCatch(j.thrown),
                        !.thrown = j.thrown, !.inTry = TRUE, !.stage = "joined",
                        !.didLookups = 1, !.walletQueried = TRUE, !.handles = 2,
                        !.chainCalled = req[r].chainCalled, !.posted = req[r].posted,
                        !.chainRes = req[r].chainRes, !.uploadRes = req[r].uploadRes,
                        !.schemaId = req[r].schemaId, !.json = req[r].json]
  /\ fileServer' = IF req[r].chainRes.ok THEN fileServer
                   ELSE {f \in fileServer : f.schemaId /= req[r].schemaId}
  /\ req' = [req EXCEPT ![r] = IdleReq]
  /\ UNCHANGED <<env, chain, owner, nextUuid, registry, lastOp, resolution, built>>

\* a join that ends the call as soon as the chain write is rejected, as
\* Promise.all would
CreateSchemaReturnFailFast(r) ==
  LET j == CreateSchemaJoin(req[r].did, req[r].schemaId, req[r].chainRes,
                            req[r].uploadRes) IN
  /\ req[r].pc = "pending"
  /\ req[r].chainRes.settled
  /\ req[r].uploadRes.settled \/ ~req[r].chainRes.ok
  /\ lastResult' =
       [NoResult EXCEPT !.op = "createSchema", !.did = req[r].did,
                        !.ok = j.ok, !.value = j.value,
                        !.error = IF j.ok THEN NoCause ELSE CreateCatch(j.thrown),
                        !.thrown = j.thrown, !.inTry = TRUE, !.stage = "joined",
                        !.chainRes = req[r].chainRes, !.uploadRes = req[r].uploadRes,
                        !.schemaId = req[r].schemaId, !.json = req[r].json]
  /\ req' = [req EXCEPT ![r] = IdleReq]
  /\ UNCHANGED <<env, chain, owner, fileServer, nextUuid, registry, lastOp, resolution,
                 built>>

\* both promises have settled: createSchema returns or throws
CreateSchemaReturn(r) ==
  LET j == CreateSchemaJoin(req[r].did, req[r].schemaId, req[r].chainRes,
                            req[r].uploadRes) IN
  /\ req[r].pc = "pending"
  /\ req[r].chainRes.settled
  /\ req[r].uploadRes.settled
  /\ lastResult' =
       [NoResult EXCEPT !.op = "createSchema", !.did = req[r].did,
                        !.schemaName = req[r].schemaName, !.schema = req[r].schema,
                        !.walletType = req[r].walletType,
                        !.ok = j.ok, !.value = j.value,
                        !.error = IF j.ok THEN NoCause ELSE CreateCatch(j.thrown),
                        !.thrown = j.thrown, !.inTry = TRUE, !.stage = "joined",
                        !.didLookups = 1, !.walletQueried = TRUE, !.handles = 2,
                        !.chainCalled = req[r].chainCalled, !.posted = req[r].posted,
                        !.chainRes = req[r].chainRes, !.uploadRes = req[r].uploadRes,
                        !.schemaId = req[r].schemaId, !.json = req[r].json]
  /\ req' = [req EXCEPT ![r] = IdleReq]
  /\ UNCHANGED <<env, chain, owner, fileServer, nextUuid, registry, lastOp, resolution, built>>

\* the inputs getSchemaByDidAndSchemaId is called with
GoodGet == [did |-> DidGood, schemaId |-> uuid(1)]
GetInputs ==
  {[GoodGet EXCEPT !.did = d] :
      d \in {Undefined, <<>>, <<" ">>, DidGood, DidUnknown, DidNoKey}}
  \cup {[GoodGet EXCEPT !.schemaId = i] :
          i \in {Undefined, <<>>, <<" ", " ">>, uuid(2), <<"non-existent-schema-id">>}}

\* a call of getSchemaByDidAndSchemaId
GetCalls ==
  {[opts |-> o, storeFault |-> "none", providerOk |-> TRUE,
    fate |-> [kind |-> "contract", failure |-> NoCause]] : o \in GetInputs}
  \cup {[opts |-> GoodGet, storeFault |-> f, providerOk |-> TRUE,
         fate |-> [kind |-> "contract", failure |-> NoCause]] : f \in StoreFaults}
  \cup {[opts |-> GoodGet, storeFault |-> "none", providerOk |-> FALSE,
         fate |-> [kind |-> "contract", failure |-> NoCause]]}
  \cup {[opts |-> GoodGet, storeFault |-> "none", providerOk |-> TRUE,
         fate |-> [kind |-> "fail", failure |-> f]] : f \in {NetFailure, OpaqueFailure}}

\* getSchemaByDidAndSchemaId runs from call to return
GetSchemaCall(call) ==
  LET opts == call.opts
      g == GetSchemaByDidAndSchemaId(env, chain, owner, opts.did, opts.schemaId,
                                     call.storeFault, call.providerOk, call.fate) IN
  /\ \A r \in Requests : req[r].pc = "idle"
  /\ lastResult' =
       [NoResult EXCEPT !.op = "getSchema", !.did = opts.did,
                        !.schemaIdArg = opts.schemaId,
                        !.storeFault = call.storeFault, !.providerOk = call.providerOk,
                        !.fateKind = call.fate.kind, !.ok = g.ok, !.text = g.text,
                        !.error = g.escaped, !.thrown = g.thrown, !.inTry = g.inTry,
                        !.stage = g.stage, !.didLookups = g.didLookups,
                        !.handles = g.handles, !.chainCalled = g.called]
  /\ UNCHANGED <<env, chain, owner, fileServer, nextUuid, req, registry, lastOp,
                 resolution, built>>

NoOp == [op |-> "none"]
NoResolution == [op |-> "none"]
NoBuilt == [op |-> "none"]

Init ==
  /\ env \in Envs
  /\ chain = <<>>
  /\ owner = AddrA
  /\ fileServer = {}
  /\ nextUuid = 1
  /\ req = [r \in Requests |-> IdleReq]
  /\ lastResult = NoResult
  /\ registry = NoRegistry
  /\ lastOp = NoOp
  /\ resolution = NoResolution
  /\ built = NoBuilt

\* one request at a time
Next ==
  \/ \E call \in CreateCalls, now \in Timestamps : CreateSchemaCall("r1", call, now)
  \/ \E fate \in LedgerFates, kind \in ReceiptKinds : ChainSettle("r1", fate, kind)
  \/ \E serverOk \in BOOLEAN : UploadSettle("r1", serverOk)
  \/ CreateSchemaReturn("r1")
  \/ \E call \in GetCalls : GetSchemaCall(call)

Spec == Init /\ [][Next]_vars

\* the same service under the scheduling of the event loop: the continuation
\* of a settled Promise.allSettled is run
SpecFair == Spec /\ WF_vars(CreateSchemaReturn("r1"))

(***************************************************************************)
(* Properties of the ledger service.                                       *)
(***************************************************************************)
\* undefined, empty or whitespace only
IsBlank(x) == x = Undefined \/ \A i \in 1..Len(x) : x[i] = " "

Created == lastResult.op = "createSchema"
Retrieved == lastResult.op = "getSchema"

\* the record of a DID gives a hex public key
HasHexKey(did) ==
  /\ DidRecords(did).found
  /\ DidRecords(did).hasVM
  /\ \E i \in 1..Len(DidRecords(did).vms) :
       DidRecords(did).vms[i].publicKeyHex \notin {Undefined, <<>>}

EnvIncomplete ==
  \E f \in {"schemaManagerContractAddress", "rpcUrl", "fileServerUrl", "fileServerToken"} :
    env[f] \in {Undefined, <<>>}

\* the chain write was fulfilled with a receipt that carries a hash
ChainFulfilledWithHash(res) ==
  res.settled /\ res.ok /\ ~res.receipt.isNull /\ res.receipt.hash /= <<>>

\* C1: once configuration, input validation, key lookup and signer lookup have
\* passed, createSchema returns {did, schemaId, schemaTxnHash} exactly when the
\* chain write was fulfilled with a non-empty hash, whatever the upload did;
\* otherwise it fails with SchemaCreationError.
C1_ChainWriteDecides ==
  (Created /\ lastResult.stage \in {"registry", "address", "resource", "joined"}) =>
    /\ lastResult.ok <=> ChainFulfilledWithHash(lastResult.chainRes)
    /\ lastResult.ok =>
         /\ lastResult.value.schemaTxnHash = lastResult.chainRes.receipt.hash
         /\ lastResult.value.schemaTxnHash /= <<>>
         /\ lastResult.value.schemaId = lastResult.schemaId
         /\ lastResult.value.did = lastResult.did
    /\ ~lastResult.ok => lastResult.error.class = "SchemaCreationError"

\* the chain write succeeded, the upload was rejected, the call succeeded
C1_Witness ==
  /\ Created
  /\ lastResult.ok
  /\ lastResult.uploadRes.settled
  /\ ~lastResult.uploadRes.ok
  /\ lastResult.value.schemaTxnHash /= <<>>

\* a text that mentions a funds or balance shortage, in any letter case
MentionsShortage(text) ==
  \E i \in 1..(Len(text) - 2) :
    /\ text[i] \in {"insufficient", "Insufficient", "INSUFFICIENT"}
    /\ text[i + 1] = " "
    /\ text[i + 2] \in {"funds", "Funds", "FUNDS", "balance", "Balance"}

FundsMessage ==
  <<"Schema", " ", "creation", " ", "failed.", " ", "Reason:", " ",
    "Insufficient", " ", "funds", " ", "to", " ", "pay", " ", "for", " ", "gas", " ",
    "fees">>

GenericMessage ==
  <<"Schema", " ", "creation", " ", "failed.", " ", "Reason:", " ",
    "Blockchain", " ", "transaction", " ", "failed">>

ChainRejected == Created /\ lastResult.chainRes.settled /\ ~lastResult.chainRes.ok

\* C2: a rejected chain write is fatal for every upload outcome: the call fails
\* with the SchemaCreationError 'Insufficient funds to pay for gas fees' when the
\* rejection's message mentions insufficient funds/balance in any letter case,
\* and with 'Blockchain transaction failed' otherwise; both carry the rejection
\* as cause.
C2_RejectedWriteIsFatal ==
  ChainRejected =>
    /\ ~lastResult.ok
    /\ lastResult.error.class = "SchemaCreationError"
    /\ lastResult.error.cause = lastResult.chainRes.error
    /\ lastResult.error.message =
         IF MentionsShortage(lastResult.chainRes.error.message)
         THEN FundsMessage ELSE GenericMessage
    /\ FundsMessage /= GenericMessage

\* a rejection whose message spells the shortage in capitals, upload fulfilled
C2_Witness ==
  /\ ChainRejected
  /\ lastResult.uploadRes.ok
  /\ \E i \in 1..Len(lastResult.chainRes.error.message) :
       lastResult.chainRes.error.message[i] \in {"Insufficient", "INSUFFICIENT"}
  /\ lastResult.error.message = FundsMessage

\* an earlier step of createSchema cannot pass for these inputs
EarlyStepFails(did, schemaName, schema, walletType) ==
  \/ EnvIncomplete
  \/ IsBlank(did) \/ IsBlank(schemaName)
  \/ ~schema.defined \/ schema.props = {}
  \/ ~HasHexKey(did)
  \/ walletType \notin {"AskarWallet", "AskarProfileWallet"}
  \/ did = DidNoKey

\* C3: createSchema issues neither the chain write nor the upload unless every
\* earlier step has passed: with incomplete configuration, blank did or name,
\* missing or empty schema, no DID record / verification method / hex key, or
\* an unusable wallet, it fails with SchemaCreationError and nothing was
\* issued; the configuration check fails before the DID-record lookup.
C3_NoSideEffectBeforeChecks ==
  /\ (Created /\ EarlyStepFails(lastResult.did, lastResult.schemaName, lastResult.schema,
                                lastResult.walletType)) =>
       /\ ~lastResult.ok
       /\ lastResult.error.class = "SchemaCreationError"
       /\ ~lastResult.chainCalled
       /\ ~lastResult.posted
       /\ ~lastResult.chainRes.settled
       /\ ~lastResult.uploadRes.settled
  /\ (Created /\ EnvIncomplete) => lastResult.didLookups = 0
  /\ EnvIncomplete => chain = <<>> /\ fileServer = {}
  /\ \A r \in Requests :
       req[r].pc = "pending" =>
         ~EarlyStepFails(req[r].did, req[r].schemaName, req[r].schema, req[r].walletType)

\* a call for a DID whose key the wallet does not hold: the record was looked
\* up, the wallet was asked, nothing was issued
C3_Witness ==
  /\ Created
  /\ lastResult.did = DidNoKey
  /\ lastResult.didLookups = 1
  /\ lastResult.walletQueried
  /\ lastResult.error.class = "SchemaCreationError"
  /\ ~lastResult.chainCalled
  /\ ~lastResult.posted

\* the chain address getSchemaByDidAndSchemaId derives for a DID
AddressOf(did) == <<DidRecords(did).vms[1].blockchainAccountId[5]>>

\* contract address and RPC URL are configured
ChainConfigured ==
  /\ env.schemaManagerContractAddress \in EthAddresses
  /\ env.rpcUrl \notin {Undefined, <<>>}

\* the collaborators of the retrieval did not fail
RetrievedUndisturbed ==
  /\ Retrieved
  /\ lastResult.storeFault = "none"
  /\ lastResult.providerOk
  /\ lastResult.fateKind = "contract"

\* C4: for a DID with a usable key whose derived address has a schema stored
\* on-chain under schemaId, getSchemaByDidAndSchemaId, with contract address
\* and RPC URL configured, returns the stored schema string; in particular
\* after a successful createSchema for that DID.
C4_RetrievalReturnsStored ==
  (/\ RetrievedUndisturbed
   /\ ChainConfigured
   /\ HasHexKey(lastResult.did)
   /\ ~IsBlank(lastResult.schemaIdArg)
   /\ Stored(chain, AddressOf(lastResult.did), lastResult.schemaIdArg) /= <<>>) =>
    /\ lastResult.ok
    /\ lastResult.text = Stored(chain, AddressOf(lastResult.did), lastResult.schemaIdArg)

LedgerFamily == {"EthereumLedgerError", "SchemaCreationError", "SchemaRetrievalError"}

WrapClass == IF Created THEN "SchemaCreationError" ELSE "SchemaRetrievalError"

Failed == lastResult.op /= "none" /\ ~lastResult.ok

\* C6 as stated: every exception that escapes createSchema or
\* getSchemaByDidAndSchemaId is of the EthereumLedgerError family; one already
\* in the family escapes unchanged; every other thrown value is wrapped into a
\* SchemaCreationError / SchemaRetrievalError whose cause is the thrown value.
C6_CauseAlwaysKept ==
  Failed =>
    /\ lastResult.error.class \in LedgerFamily
    /\ lastResult.thrown.class \in LedgerFamily => lastResult.error = lastResult.thrown
    /\ lastResult.thrown.class \notin LedgerFamily =>
         /\ lastResult.error.class = WrapClass
         /\ lastResult.error.cause = lastResult.thrown

\* the last atoms of a message
Suffix(s, n) == SubSeq(s, Len(s) - n + 1, Len(s))

\* C6 as amended: as above, but the cause is the thrown value only when that
\* value is an Error; a thrown value that is not an Error is wrapped with the
\* reason 'Unknown error occurred' and no cause.
C6_CauseKeptForErrors ==
  Failed =>
    /\ lastResult.error.class \in LedgerFamily
    /\ lastResult.thrown.class \in LedgerFamily => lastResult.error = lastResult.thrown
    /\ lastResult.thrown.class \notin LedgerFamily =>
         /\ lastResult.error.class = WrapClass
         /\ lastResult.error /= lastResult.thrown
         /\ lastResult.thrown.class /= "NonError" =>
              /\ lastResult.error.cause = lastResult.thrown
              /\ Suffix(lastResult.error.message, Len(lastResult.thrown.message))
                   = lastResult.thrown.message
         /\ lastResult.thrown.class = "NonError" =>
              /\ lastResult.error.cause = NoCause
              /\ Suffix(lastResult.error.message, 5)
                   = <<"Unknown", " ", "error", " ", "occurred">>

\* a createSchema in which a collaborator threw a value that is not an Error
C6_Witness ==
  /\ Created
  /\ ~lastResult.ok
  /\ lastResult.thrown.class = "NonError"
  /\ lastResult.error.class = "SchemaCreationError"

(***************************************************************************)
(* EthereumDidResolver.resolve.                                            *)
(***************************************************************************)
DidV1 == "https://www.w3.org/ns/did/v1"
Unstable == "https://w3id.org/security/v3-unstable"
Secp2019 == "https://w3id.org/security/suites/secp256k1-2019/v1"
ContextUris == {DidV1, Unstable, Secp2019}

\* sequences over a set, up to a length
RECURSIVE SeqsUpTo(_, _)
SeqsUpTo(S, n) ==
  IF n = 0 THEN {<<>>}
  ELSE SeqsUpTo(S, n - 1)
       \cup {Append(q, x) : q \in {t \in SeqsUpTo(S, n - 1) : Len(t) = n - 1}, x \in S}

\* the @context values a resolution library may return: a list, one string,
\* or none
Contexts ==
  {[kind |-> "list", items |-> q] : q \in SeqsUpTo(ContextUris, MaxCtxLen)}
  \cup {[kind |-> "string", items |-> <<u>>] : u \in ContextUris}
  \cup {[kind |-> "absent", items |-> <<>>]}

\* Array.prototype.filter((ctx) => ctx !== unwanted)
RECURSIVE filterOut(_, _)
filterOut(items, unwanted) ==
  IF items = <<>> THEN <<>>
  ELSE (IF items[1] /= unwanted THEN <<items[1]>> ELSE <<>>)
       \o filterOut(Tail(items), unwanted)

\* Array.prototype.includes
arrayIncludes(items, x) == \E i \in 1..Len(items) : items[i] = x

\* the @context normalisation of resolve
normalizeContext(ctx) ==
  IF ctx.kind = "list"
  THEN LET filtered == filterOut(ctx.items, Unstable) IN
       [ctx EXCEPT !.items = IF ~arrayIncludes(filtered, Secp2019)
                             THEN Append(filtered, Secp2019) ELSE filtered]
  ELSE ctx

NoContext == [kind |-> "absent", items |-> <<>>]
NullDocument == [isNull |-> TRUE, id |-> <<>>, context |-> NoContext]

\* Error.prototype.toString, as `${error}` renders it
ErrorToString(error) == <<error.class, ":", " ">> \o error.message

LibraryErrors ==
  {Error(<<"network", " ", "timeout">>), TypeError(<<"invalid", " ", "did">>)}

\* what the collaborators do during one resolve: the dependency manager
\* finds the ledger service or throws, the resolution library throws or
\* returns a document (or null), JsonTransformer accepts the document or throws
ResolveCalls ==
  LET base == [did |-> DidGood, lookupOk |-> TRUE, libThrows |-> FALSE,
               libError |-> NoCause, docNull |-> FALSE, context |-> NoContext,
               transformOk |-> TRUE] IN
  {[base EXCEPT !.did = d, !.context = c, !.transformOk = t] :
      d \in {DidGood, DidUnknown}, c \in Contexts, t \in BOOLEAN}
  \cup {[base EXCEPT !.docNull = TRUE, !.transformOk = t] : t \in BOOLEAN}
  \cup {[base EXCEPT !.libThrows = TRUE, !.libError = x] : x \in LibraryErrors}
  \cup {[base EXCEPT !.lookupOk = FALSE]}

ServiceLookupError ==
  Error(<<"Cannot", " ", "inject", " ", "the", " ", "dependency", " ",
          "EthereumLedgerService">>)

TransformError == MkError("ClassValidationError", <<"Failed", " ", "to", " ", "validate">>,
                          Undefined, Undefined, NoCause)

\* the result the catch clause of resolve returns
NotFoundResult(did, error) ==
  [threw |-> FALSE, exception |-> NoCause, didDocument |-> NullDocument,
   error |-> <<"notFound">>,
   message |-> <<"resolver_error:", " ", "Unable", " ", "to", " ", "resolve", " ", "did",
                 " ", "'">> \o did \o <<"'", ":", " ">> \o ErrorToString(error)]

\* EthereumDidResolver.resolve(agentContext, did)
resolve(call) ==
  IF ~call.lookupOk
  THEN [threw |-> TRUE, exception |-> ServiceLookupError, didDocument |-> NullDocument,
        error |-> <<>>, message |-> <<>>]
  ELSE IF call.libThrows THEN NotFoundResult(call.did, call.libError)
  ELSE LET context == IF call.docNull THEN NoContext
                      ELSE normalizeContext(call.context) IN
    IF ~call.transformOk THEN NotFoundResult(call.did, TransformError)
    ELSE [threw |-> FALSE, exception |-> NoCause,
          didDocument |-> [isNull |-> call.docNull,
                           id |-> IF call.docNull THEN <<>> ELSE call.did,
                           context |-> context],
          error |-> <<>>, message |-> <<>>]

\* one resolution, from call to return or throw
Resolve(call) ==
  /\ resolution' = [op |-> "resolve", call |-> call, result |-> resolve(call)]
  /\ UNCHANGED <<env, chain, owner, fileServer, nextUuid, req, lastResult, registry,
                 lastOp, built>>

InitResolver ==
  /\ env = GoodEnv
  /\ chain = <<>>
  /\ owner = AddrA
  /\ fileServer = {}
  /\ nextUuid = 1
  /\ req = [r \in Requests |-> IdleReq]
  /\ lastResult = NoResult
  /\ registry = NoRegistry
  /\ lastOp = NoOp
  /\ resolution = NoResolution
  /\ built = NoBuilt

NextResolver == \E call \in ResolveCalls : Resolve(call)

SpecResolver == InitResolver /\ [][NextResolver]_vars

Resolved == resolution.op = "resolve"

\* a step of the resolution failed with an exception
StepFailed ==
  /\ Resolved
  /\ \/ ~resolution.call.lookupOk
     \/ resolution.call.libThrows
     \/ ~resolution.call.transformOk

\* C7: resolve is total with respect to exceptions: whatever step fails
\* (looking up the ledger service, the resolution library, the transformation
\* of the document) it returns a result and propagates nothing; on failure the
\* result has didDocument null, error 'notFound' and a message that embeds the
\* failure text.
C7_ResolveNeverThrows ==
  /\ Resolved => ~resolution.result.threw
  /\ StepFailed =>
       /\ resolution.result.didDocument.isNull
       /\ resolution.result.error = <<"notFound">>
       /\ resolution.call.libThrows =>
            Suffix(resolution.result.message, Len(resolution.call.libError.message))
              = resolution.call.libError.message

\* number of occurrences of x in a list
RECURSIVE Count(_, _)
Count(items, x) ==
  IF items = <<>> THEN 0
  ELSE (IF items[1] = x THEN 1 ELSE 0) + Count(Tail(items), x)

ResolvedOk ==
  /\ Resolved
  /\ ~resolution.result.threw
  /\ ~resolution.result.didDocument.isNull

\* C8: whenever resolve succeeds, the returned context does not
\* contain the v3-unstable URI and contains the secp256k1-2019 URI exactly
\* once, for every context the library may return.
C8_SecpExactlyOnce ==
  ResolvedOk =>
    /\ Count(resolution.result.didDocument.context.items, Unstable) = 0
    /\ Count(resolution.result.didDocument.context.items, Secp2019) = 1

(***************************************************************************)
(* The registry client on its own: a caller constructs an                  *)
(* EthereumSchemaRegistry and calls its operations.                        *)
(***************************************************************************)
GoodConfig == [contractAddress |-> ContractAddr, rpcUrl |-> GoodEnv.rpcUrl,
               signingKey |-> KeyA]

\* configurations a caller passes to the constructor
RegistryConfigs ==
  {[GoodConfig EXCEPT !.contractAddress = a] :
      a \in {Undefined, <<>>, <<"invalid-address">>, ContractAddr}}
  \cup {[GoodConfig EXCEPT !.rpcUrl = u] : u \in {Undefined, <<>>}}
  \cup {[GoodConfig EXCEPT !.signingKey = NoSigningKey]}
  \cup {[GoodConfig EXCEPT !.contractAddress = <<"invalid-address">>,
                           !.signingKey = NoSigningKey]}

\* arguments a caller passes to the operations
LongestId == Repeat("a", MaxSchemaIdLength)
TooLongId == Repeat("a", MaxSchemaIdLength + 1)
GoodId == <<"schema-1">>
JsonA == JsonStringify(<<<<<<"name">>, <<"a">>>>>>)
JsonB == JsonStringify(<<<<<<"name">>, <<"b">>>>>>)
GoodIds == {GoodId, LongestId}
BadIds == {Undefined, <<>>, <<" ", " ">>, TooLongId}
BadJsons == {Undefined, <<>>, <<" ">>, <<"invalid-json">>, <<"{", Q, "name", Q, ":">>}
GoodAddresses == {AddrA, AddrB}
BadAddresses == {Undefined, <<>>, <<"invalid-address">>}
NoArg == <<"<no-arg>">>
NoConfig == [contractAddress |-> NoArg, rpcUrl |-> NoArg, signingKey |-> NoSigningKey]
RunByContract == [kind |-> "contract", failure |-> NoCause]

\* what is recorded of one call: the operation, its arguments, whether it
\* returned, the value by its type, the error thrown, whether the contract
\* call was issued, and the handles a construction created
OpRecord(op, a, fate, res, called, handles) ==
  [op |-> op, config |-> a.config, address |-> a.address, schemaId |-> a.schemaId,
   json |-> a.json, fate |-> fate, ok |-> res.ok, error |-> res.error,
   called |-> called, handles |-> handles,
   receipt |-> IF res.ok /\ op \in {"createSchema", "adminCreateSchema",
                                    "transferOwnership"}
               THEN res.value ELSE NoReceipt,
   text |-> IF res.ok /\ op \in {"getSchema", "getOwner"} THEN res.value ELSE <<>>,
   ids |-> IF res.ok /\ op = "getSchemaIds" THEN res.value ELSE <<>>]

NoArgs == [config |-> NoConfig, address |-> NoArg, schemaId |-> NoArg, json |-> NoArg]

\* the outcome of an operation becomes the state of chain, owner and caller
Outcome(op, a, fate, r) ==
  /\ Len(r.chain) <= MaxSchemas
  /\ chain' = r.chain
  /\ owner' = r.owner
  /\ lastOp' = OpRecord(op, a, fate, r, r.called, 0)
  /\ UNCHANGED <<env, fileServer, nextUuid, req, lastResult, registry, resolution, built>>

\* new EthereumSchemaRegistry(config)
RegConstruct(config, providerOk) ==
  LET res == NewRegistry(config, providerOk) IN
  /\ registry' = IF res.ok THEN res.value ELSE registry
  /\ lastOp' = OpRecord("construct", [NoArgs EXCEPT !.config = config],
                        RunByContract, [res EXCEPT !.value = <<>>], FALSE, res.handles)
  /\ UNCHANGED <<env, chain, owner, fileServer, nextUuid, req, lastResult, resolution, built>>

\* the combinations of fate and receipt an operation is run under: the
\* given fates and receipts for the arguments `usual`, the contract's own run
\* for the others
Fated(args, usual, fates, kinds) ==
  {<<a, f, "receipt">> : a \in args, f \in {RunByContract}}
  \cup {<<usual, f, "receipt">> : f \in fates}
  \cup {<<usual, RunByContract, k>> : k \in kinds}

\* the failures tried on the operations other than createSchema and getSchema
FewFates ==
  {RunByContract, [kind |-> "fail", failure |-> NetReasonFailure],
   [kind |-> "fail", failure |-> NoMessageFailure]}

CreateArgs ==
  {[NoArgs EXCEPT !.schemaId = i, !.json = JsonA] : i \in GoodIds \cup BadIds}
  \cup {[NoArgs EXCEPT !.schemaId = GoodId, !.json = j] : j \in BadJsons}
  \cup {[NoArgs EXCEPT !.schemaId = TooLongId, !.json = <<"invalid-json">>]}
  \cup {[NoArgs EXCEPT !.schemaId = GoodId, !.json = JsonB]}

RegCreateSchema(a, fate, receiptKind) ==
  /\ registry.constructed
  /\ Outcome("createSchema", a, fate,
             RegistryCreateSchema(registry, chain, owner, a.schemaId, a.json, fate,
                                  receiptKind))

AdminArgs ==
  {[NoArgs EXCEPT !.address = x, !.schemaId = GoodId, !.json = JsonA] :
      x \in GoodAddresses \cup BadAddresses}
  \cup {[NoArgs EXCEPT !.address = AddrB, !.schemaId = i, !.json = JsonA] :
          i \in {GoodId} \cup BadIds}
  \cup {[NoArgs EXCEPT !.address = AddrB, !.schemaId = GoodId, !.json = j] :
          j \in BadJsons}

RegAdminCreateSchema(a, fate, receiptKind) ==
  /\ registry.constructed
  /\ Outcome("adminCreateSchema", a, fate,
             RegistryAdminCreateSchema(registry, chain, owner, a.address, a.schemaId,
                                       a.json, fate, receiptKind))

GetArgs ==
  {[NoArgs EXCEPT !.address = x, !.schemaId = GoodId] :
      x \in GoodAddresses \cup BadAddresses}
  \cup {[NoArgs EXCEPT !.address = AddrA, !.schemaId = i] : i \in GoodIds \cup BadIds}
  \cup {[NoArgs EXCEPT !.address = <<"invalid-address">>, !.schemaId = <<>>]}

RegGetSchema(a, fate) ==
  /\ registry.constructed
  /\ Outcome("getSchema", a, fate,
             RegistryGetSchema(registry, chain, owner, a.address, a.schemaId, fate))

AddressArgs ==
  {[NoArgs EXCEPT !.address = x] : x \in GoodAddresses \cup BadAddresses}

RegGetSchemaIds(a, fate) ==
  /\ registry.constructed
  /\ Outcome("getSchemaIds", a, fate,
             RegistryGetSchemaIds(registry, chain, owner, a.address, fate))

RegGetOwner(fate) ==
  /\ registry.constructed
  /\ Outcome("getOwner", NoArgs, fate, RegistryGetOwner(registry, chain, owner, fate))

RegTransferOwnership(a, fate, receiptKind) ==
  /\ registry.constructed
  /\ Outcome("transferOwnership", a, fate,
             RegistryTransferOwnership(registry, chain, owner, a.address, fate,
                                       receiptKind))

\* another user of the contract stores a whitespace-only string under its own
\* address, with a client that does not validate the json
ContractDirectWrite(sender, schemaId, json) ==
  LET r == ContractCreateSchema(chain, sender, schemaId, json) IN
  /\ r.ok
  /\ Outcome("contractWrite", [NoArgs EXCEPT !.address = sender, !.schemaId = schemaId,
                                             !.json = json],
             RunByContract,
             RegResult(Fulfilled(ReceiptOf(schemaId)), TRUE, r.chain, owner))

InitRegistry == InitResolver

NextRegistry ==
  \/ \E config \in RegistryConfigs, providerOk \in BOOLEAN : RegConstruct(config, providerOk)
  \/ \E c \in Fated(CreateArgs, [NoArgs EXCEPT !.schemaId = GoodId, !.json = JsonA],
                     CallFates, ReceiptKinds) :
       RegCreateSchema(c[1], c[2], c[3])
  \/ \E c \in Fated(AdminArgs, [NoArgs EXCEPT !.address = AddrB, !.schemaId = GoodId,
                                              !.json = JsonA], FewFates, {"receipt"}) :
       RegAdminCreateSchema(c[1], c[2], c[3])
  \/ \E c \in Fated(GetArgs, [NoArgs EXCEPT !.address = AddrA, !.schemaId = GoodId],
                     CallFates, {"receipt"}) :
       RegGetSchema(c[1], c[2])
  \/ \E c \in Fated(AddressArgs, [NoArgs EXCEPT !.address = AddrA], FewFates,
                     {"receipt"}) :
       RegGetSchemaIds(c[1], c[2])
  \/ \E fate \in FewFates : RegGetOwner(fate)
  \/ \E c \in Fated(AddressArgs, [NoArgs EXCEPT !.address = AddrB], FewFates,
                     {"receipt"}) :
       RegTransferOwnership(c[1], c[2], c[3])
  \/ ContractDirectWrite(AddrB, GoodId, <<" ", " ">>)

SpecRegistry == InitRegistry /\ [][NextRegistry]_vars

(***************************************************************************)
(* Properties of the registry client.                                      *)
(***************************************************************************)
Constructing == lastOp.op = "construct"

ConfigRejectable ==
  \/ lastOp.config.contractAddress \in {Undefined, <<>>}
  \/ lastOp.config.contractAddress \notin EthAddresses
  \/ lastOp.config.rpcUrl \in {Undefined, <<>>}
  \/ ~lastOp.config.signingKey.present

TakesAddress == {"adminCreateSchema", "getSchema", "getSchemaIds", "transferOwnership"}
TakesSchemaId == {"createSchema", "adminCreateSchema", "getSchema"}
TakesJson == {"createSchema", "adminCreateSchema"}
RegistryOps == TakesAddress \cup TakesSchemaId

AddressInvalid(a) == a \in {Undefined, <<>>} \/ a \notin EthAddresses
SchemaIdInvalid(i) == i \in {Undefined, <<>>} \/ IsBlank(i) \/ Len(i) > 256
JsonInvalid(j) == j \in {Undefined, <<>>} \/ IsBlank(j) \/ ~JsonParses(j)

ArgumentInvalid ==
  \/ lastOp.op \in TakesAddress /\ AddressInvalid(lastOp.address)
  \/ lastOp.op \in TakesSchemaId /\ SchemaIdInvalid(lastOp.schemaId)
  \/ lastOp.op \in TakesJson /\ JsonInvalid(lastOp.json)

\* C10: for createSchema, adminCreateSchema, getSchema, getSchemaIds and
\* transferOwnership, an argument that fails validation (an address missing or
\* malformed; a schemaId empty, blank or longer than 256 characters; a json
\* empty, blank or unparseable) makes the operation fail with ValidationError
\* without any contract call; a schemaId of exactly 256 characters is
\* accepted: with the other arguments valid the contract call is issued.
C10_ArgumentsValidated ==
  lastOp.op \in RegistryOps =>
    /\ ArgumentInvalid =>
         /\ ~lastOp.ok
         /\ lastOp.error.class = "ValidationError"
         /\ ~lastOp.called
    /\ (lastOp.op \in TakesSchemaId /\ Len(lastOp.schemaId) = 256 /\ ~ArgumentInvalid) =>
         /\ lastOp.called
         /\ ~lastOp.ok => lastOp.error.class /= "ValidationError"

\* a createSchema with a schemaId of exactly 256 characters was issued to the
\* contract and stored
C10_Witness ==
  /\ lastOp.op = "createSchema"
  /\ Len(lastOp.schemaId) = 256
  /\ lastOp.called
  /\ lastOp.ok
  /\ \E i \in 1..Len(chain) : chain[i].id = lastOp.schemaId

Creates == {"createSchema", "adminCreateSchema"}

\* the address a create call stores under: the signer's for createSchema, the
\* address argument for adminCreateSchema
TargetOf(op) == IF op.op = "createSchema" THEN registry.signer ELSE op.address

\* a create with valid arguments that the contract itself runs, sent by a
\* signer the contract lets create under the target address
CreateReachesContract(op) ==
  /\ op.op \in Creates
  /\ op.called
  /\ op.fate = RunByContract
  /\ op.op = "adminCreateSchema" => registry.signer = owner

\* C11: once a create has succeeded for (address, id), a later create with the
\* same id for that address that reaches the contract fails with ContractError
\* carrying the revert reason SCHEMA_EXISTS, and whatever is called later, the
\* value stored for (address, id) stays the json of the first successful create.
C11_DuplicateCreateRejected ==
  [][/\ \A a \in GoodAddresses, i \in GoodIds :
          Stored(chain, a, i) /= <<>> => Stored(chain', a, i) = Stored(chain, a, i)
     /\ (/\ lastOp' /= lastOp
         /\ registry' = registry
         /\ CreateReachesContract(lastOp')
         /\ Stored(chain, TargetOf(lastOp'), lastOp'.schemaId) /= <<>>) =>
          /\ ~lastOp'.ok
          /\ lastOp'.error.class = "ContractError"
          /\ lastOp'.error.reason = <<"SCHEMA_EXISTS">>
          /\ lastOp'.error.cause.reason = <<"SCHEMA_EXISTS">>
          /\ chain' = chain]_vars

\* a createSchema of another json under an id already stored was rejected with
\* SCHEMA_EXISTS and the first json is still stored
C11_Witness ==
  /\ lastOp.op = "createSchema"
  /\ lastOp.json = JsonB
  /\ ~lastOp.ok
  /\ lastOp.error.class = "ContractError"
  /\ lastOp.error.reason = <<"SCHEMA_EXISTS">>
  /\ Stored(chain, registry.signer, lastOp.schemaId) = JsonA

\* a getSchema with valid arguments that the contract itself answers
ReadAnswered ==
  /\ lastOp.op = "getSchema"
  /\ lastOp.called
  /\ lastOp.fate = RunByContract

StoredForRead == Stored(chain, lastOp.address, lastOp.schemaId)

\* C12: a read reflects what is stored: getSchema(address, id) returns the json
\* string stored for (address, id) unchanged, and returns null, never an
\* error, when nothing, an empty string or a whitespace-only string is stored.
C12_ReadReflectsStore ==
  ReadAnswered =>
    /\ lastOp.ok
    /\ IsBlank(StoredForRead) => lastOp.text = Null
    /\ ~IsBlank(StoredForRead) => lastOp.text = StoredForRead

\* a read of an entry holding a whitespace-only string returned null while
\* the contract holds a schema json under another entry
C12_Witness ==
  /\ ReadAnswered
  /\ StoredForRead = <<" ", " ">>
  /\ lastOp.ok
  /\ lastOp.text = Null
  /\ \E i \in 1..Len(chain) : chain[i].json \in {JsonA, JsonB}

OwnerOnly == {"adminCreateSchema", "transferOwnership"}

\* the operation of this step issued its contract call
CallIssued ==
  /\ lastOp' /= lastOp
  /\ lastOp'.op \in RegistryOps \cup {"getOwner"}
  /\ lastOp'.called

\* the registry operation failed with ContractError for the failure it caught
RaisedContractError(op, revertReason) ==
  /\ ~op.ok
  /\ op.error.class = "ContractError"
  /\ op.error.reason = revertReason

\* C13: a failure of the contract call that carries a revert reason makes the
\* operation fail with ContractError whose revertReason is that reason:
\* SCHEMA_EXISTS for a duplicate create, NOT_OWNER for adminCreateSchema or
\* transferOwnership sent by a non-owner, any other reason unchanged; a failure
\* with neither reason nor network code gives ContractError without
\* revertReason; the caught failure is always the error's originalError.
C13_RevertReasonKept ==
  [][CallIssued =>
       LET op == lastOp'
           caught == op.fate.failure IN
       /\ (op.fate.kind = "fail" /\ ~Falsy(caught.reason)) =>
            RaisedContractError(op, caught.reason) /\ op.error.cause = caught
       /\ (op.fate.kind = "fail" /\ Falsy(caught.reason)
           /\ caught.code /= <<"NETWORK_ERROR">>) =>
            RaisedContractError(op, Undefined) /\ op.error.cause = caught
       /\ (op.fate.kind = "fail" /\ ~op.ok) => op.error.cause = caught
       /\ (op.fate = RunByContract /\ op.op \in OwnerOnly /\ registry.signer /= owner) =>
            /\ RaisedContractError(op, <<"NOT_OWNER">>)
            /\ op.error.cause = Revert(<<"NOT_OWNER">>)
       /\ (op.fate = RunByContract /\ op.op = "createSchema"
           /\ Stored(chain, registry.signer, op.schemaId) /= <<>>) =>
            /\ RaisedContractError(op, <<"SCHEMA_EXISTS">>)
            /\ op.error.cause = Revert(<<"SCHEMA_EXISTS">>)
       /\ (op.fate = RunByContract /\ ~op.ok) =>
            /\ op.error.class = "ContractError"
            /\ op.error.cause = Revert(op.error.reason)]_vars

\* adminCreateSchema sent by a signer that is not the contract's owner failed
\* with ContractError NOT_OWNER wrapping the revert
C13_Witness ==
  /\ lastOp.op = "adminCreateSchema"
  /\ lastOp.called
  /\ registry.signer /= owner
  /\ RaisedContractError(lastOp, <<"NOT_OWNER">>)
  /\ lastOp.error.cause = Revert(<<"NOT_OWNER">>)

\* C15: a failure of the contract call whose code is NETWORK_ERROR is raised
\* as NetworkError (code NETWORK_ERROR) wrapping the failure, whatever reason
\* and message the failure carries.
C15_NetworkCodeMeansNetworkError ==
  (/\ lastOp.op \in RegistryOps \cup {"getOwner"}
   /\ lastOp.called
   /\ lastOp.fate.kind = "fail"
   /\ lastOp.fate.failure.code = <<"NETWORK_ERROR">>) =>
    /\ ~lastOp.ok
    /\ lastOp.error.class = "NetworkError"
    /\ lastOp.error.code = <<"NETWORK_ERROR">>
    /\ lastOp.error.cause = lastOp.fate.failure

(***************************************************************************)
(* buildSchemaResource on its own: a caller builds the payload for a       *)
(* schema body and builds it again for a second body.                      *)
(***************************************************************************)
SchemaBodies == {SchemaA, SchemaB, EmptyObject}

\* the value of a key of a payload given as <<key, value>> pairs
RECURSIVE Field(_, _)
Field(pairs, key) ==
  IF pairs = <<>> THEN Undefined
  ELSE IF pairs[1][1] = <<key>> THEN pairs[1][2] ELSE Field(Tail(pairs), key)

BuildInputs ==
  [did : {DidGood, DidUnknown, DidNoKey}, schemaId : {uuid(1), uuid(2), GoodId},
   name : {GoodName, <<"Licence">>}, schema : SchemaBodies, address : {AddrA, AddrB},
   other : SchemaBodies]

\* buildSchemaResource(did, schemaId, name, schema, address), and the same call
\* for the body `other`
BuildSchemaResource(i, now) ==
  LET res == buildSchemaResource(i.did, i.schemaId, i.name, i.schema, i.address, now)
      again == buildSchemaResource(i.did, i.schemaId, i.name, i.schema, i.address, now)
      res2 == buildSchemaResource(i.did, i.schemaId, i.name, i.other, i.address, now) IN
  /\ built' = [op |-> "buildSchemaResource", input |-> i, ok |-> res.ok,
               payload |-> IF res.ok THEN res.value ELSE <<>>,
               hashed |-> StringOf(i.schema),
               recomputed |-> IF again.ok THEN Field(again.value, "checksum") ELSE <<>>,
               otherHashed |-> StringOf(i.other),
               otherChecksum |-> IF res2.ok THEN Field(res2.value, "checksum") ELSE <<>>]
  /\ UNCHANGED <<env, chain, owner, fileServer, nextUuid, req, lastResult, registry,
                 lastOp, resolution>>

InitBuilder == InitResolver

NextBuilder == \E i \in BuildInputs, now \in Timestamps : BuildSchemaResource(i, now)

SpecBuilder == InitBuilder /\ [][NextBuilder]_vars

\* the members of a schema body in a fixed order
RECURSIVE MembersOf(_)
MembersOf(props) ==
  IF props = {} THEN <<>>
  ELSE LET p == CHOOSE x \in props : TRUE IN
       <<<<<<p[1]>>, <<p[2]>>>>>> \o MembersOf(props \ {p})

\* the structured textual form of a schema body: its JSON text
SchemaText(schema) == JsonStringify(MembersOf(schema.props))

Built == built.op = "buildSchemaResource" /\ built.ok

\* C14: the payload's checksum is the keccak-256 hash of the schema body's
\* structured textual form; recomputing it from the same body gives the same
\* checksum; the hashed input is determined by the body's content, so bodies
\* with different textual forms are hashed over different inputs; and
\* resourceURI = did + '/resources/' + schemaId, resourceCollectionId = address,
\* resourceId = schemaId.
C14_ChecksumOfContent ==
  Built =>
    /\ Field(built.payload, "checksum") = keccak256Hex(SchemaText(built.input.schema))
    /\ built.recomputed = Field(built.payload, "checksum")
    /\ SchemaText(built.input.schema) /= SchemaText(built.input.other) =>
         built.hashed /= built.otherHashed
    /\ Field(built.payload, "resourceURI") =
         built.input.did \o <<"/resources/">> \o built.input.schemaId
    /\ Field(built.payload, "resourceCollectionId") = built.input.address
    /\ Field(built.payload, "resourceId") = built.input.schemaId

(***************************************************************************)
(* Properties of the join inside createSchema.                             *)
(***************************************************************************)
InFlight(r) == req[r].pc = "pending"
BothSettled(r) == req[r].chainRes.settled /\ req[r].uploadRes.settled

\* C16: the chain write and the upload are both started before the outcome of
\* either is seen, and createSchema neither returns nor throws before both
\* have settled, whichever of the two has already failed; once both have
\* settled, createSchema eventually completes.
C16_JoinWaitsForBoth ==
  /\ [][(~InFlight("r1") /\ InFlight("r1")') =>
          (~req["r1"].chainRes.settled /\ ~req["r1"].uploadRes.settled)']_vars
  /\ [][(InFlight("r1") /\ ~BothSettled("r1")) =>
          (InFlight("r1")' /\ lastResult' = lastResult)]_vars
  /\ (InFlight("r1") /\ BothSettled("r1")) ~> ~InFlight("r1")

\* the chain write has been rejected, the upload is pending, and the call
\* has not ended
C16_Witness ==
  /\ InFlight("r1")
  /\ req["r1"].chainRes.settled
  /\ ~req["r1"].chainRes.ok
  /\ ~req["r1"].uploadRes.settled
  /\ lastResult = NoResult

(***************************************************************************)
(* Concurrent createSchema requests on one service instance: the steps of  *)
(* the requests interleave in any order.                                   *)
(***************************************************************************)
ConcurrentCalls ==
  {[opts |-> GoodCreate, walletType |-> "AskarWallet", storeFault |-> "none",
    providerOk |-> TRUE],
   [opts |-> [GoodCreate EXCEPT !.did = DidUnknown], walletType |-> "AskarWallet",
    storeFault |-> "none", providerOk |-> TRUE]}

ConcurrentFates ==
  {RunByContract, [kind |-> "fail", failure |-> NetFailure],
   [kind |-> "fail", failure |-> FundsFailure]}

InitConcurrent == InitResolver

NextConcurrent ==
  \/ \E r \in Requests, call \in ConcurrentCalls, now \in Timestamps :
       CreateSchemaCall(r, call, now)
  \/ \E r \in Requests, fate \in ConcurrentFates : ChainSettle(r, fate, "receipt")
  \/ \E r \in Requests, serverOk \in BOOLEAN : UploadSettle(r, serverOk)
  \/ \E r \in Requests : CreateSchemaReturn(r)

SpecConcurrent == InitConcurrent /\ [][NextConcurrent]_vars

OtherRequest(r) == CHOOSE o \in Requests : o /= r

\* the outcomes the chain write of request r can have when r runs alone
AloneChainOutcomes(r) ==
  {Settle(RegistryCreateSchema(req[r].reg, <<>>, owner, req[r].schemaId, req[r].json,
                               fate, kind)) :
     fate \in LedgerFates, kind \in ReceiptKinds}

\* what createSchema makes of the outcomes of request r
OwnJoin(r) ==
  CreateSchemaJoin(req[r].did, req[r].schemaId, req[r].chainRes, req[r].uploadRes)

\* C17: concurrent createSchema requests do not interfere, in any interleaving:
\* no step writes a field of the service, a step of one request leaves the
\* other request as it is, each request in flight has its own registry client
\* and signer and its own schemaId, the chain write of a request settles as it
\* can when the request runs alone (never SCHEMA_EXISTS caused by the other),
\* and a request ends with the result or error that follows from its own
\* chain-write and upload outcomes.
C17_RequestsDoNotInterfere ==
  [][\A r \in Requests :
       /\ env' = env
       /\ req'[r] /= req[r] => req'[OtherRequest(r)] = req[OtherRequest(r)]
       /\ InFlight(r)' =>
            /\ req'[r].reg.constructed
            /\ req'[r].reg.signer = AddressOf(req'[r].did)
            /\ InFlight(OtherRequest(r))' =>
                 req'[r].schemaId /= req'[OtherRequest(r)].schemaId
       /\ (InFlight(r) /\ ~req[r].chainRes.settled /\ req'[r].chainRes.settled) =>
            /\ req'[r].chainRes \in AloneChainOutcomes(r)
            /\ req'[r].chainRes.error.class /= "<none>" =>
                 req'[r].chainRes.error.reason /= <<"SCHEMA_EXISTS">>
       /\ (InFlight(r) /\ ~InFlight(r)') =>
            /\ lastResult'.ok = OwnJoin(r).ok
            /\ lastResult'.value = OwnJoin(r).value
            /\ lastResult'.thrown = OwnJoin(r).thrown
            /\ lastResult'.did = req[r].did
            /\ lastResult'.schemaId = req[r].schemaId]_vars

\* two requests for the same did and schema are in flight, their schemaIds
\* differ, and the chain writes of both have been fulfilled
C17_Witness ==
  /\ InFlight("r1") /\ InFlight("r2")
  /\ req["r1"].did = req["r2"].did
  /\ req["r1"].schema = req["r2"].schema
  /\ req["r1"].schemaId /= req["r2"].schemaId
  /\ req["r1"].chainRes.settled /\ req["r1"].chainRes.ok
  /\ req["r2"].chainRes.settled /\ req["r2"].chainRes.ok

(***************************************************************************)
(* Properties of what one createSchema call leaves behind.                 *)
(***************************************************************************)
Joined == Created /\ lastResult.stage = "joined"

OnChain(id) == \E i \in 1..Len(chain) : chain[i].id = id

OnFileServer(id, schema) == [schemaId |-> id, schema |-> schema] \in fileServer

\* C18 as stated: createSchema does not compensate for the upload: when the
\* chain write is rejected and the upload is fulfilled, createSchema fails with
\* SchemaCreationError while the file server keeps the schema under the
\* generated schemaId, an id without on-chain record that the caller never gets.
C18_UploadNotCompensated ==
  (Joined /\ ~lastResult.chainRes.ok /\ lastResult.uploadRes.ok) =>
    /\ ~lastResult.ok
    /\ lastResult.error.class = "SchemaCreationError"
    /\ OnFileServer(lastResult.schemaId, lastResult.schema)
    /\ ~OnChain(lastResult.schemaId)
    /\ lastResult.value = NoValue
    /\ ~includes(lastResult.error.message, lastResult.schemaId)

\* C18 as amended: as above, but the id has no on-chain record only when the
\* rejection came before the transaction took effect; when waiting for a mined
\* transaction was what failed, the id has an on-chain record as well, and the
\* caller still never gets it.
C18_UploadKeptAfterRejection ==
  (Joined /\ ~lastResult.chainRes.ok /\ lastResult.uploadRes.ok) =>
    /\ ~lastResult.ok
    /\ lastResult.error.class = "SchemaCreationError"
    /\ OnFileServer(lastResult.schemaId, lastResult.schema)
    /\ OnChain(lastResult.schemaId) <=>
         lastResult.chainRes.error.cause = ReplacedFailure
    /\ lastResult.value = NoValue
    /\ ~includes(lastResult.error.message, lastResult.schemaId)

\* a createSchema failed on a rejected chain write and its upload is on the
\* file server
C18_Witness ==
  /\ Joined
  /\ ~lastResult.chainRes.ok
  /\ lastResult.uploadRes.ok
  /\ ~lastResult.ok
  /\ lastResult.schemaId /= <<>>
  /\ OnFileServer(lastResult.schemaId, lastResult.schema)
  /\ ~OnChain(lastResult.schemaId)

\* the payload written on-chain under id names the resource by id
PayloadNames(json, did, id) ==
  /\ includes(json, <<Q, "resourceId", Q, ":", Q>> \o id \o <<Q>>)
  /\ includes(json, <<Q, "resourceURI", Q, ":", Q>> \o did \o <<"/resources/">> \o id
                    \o <<Q>>)

\* C19: one createSchema call uses a single generated schemaId throughout: the
\* id of the on-chain createSchema, the resourceId and the resourceURI suffix
\* of the payload written on-chain, the id sent to the file server and the
\* schemaId of the result are equal, and the result's did is the request's.
C19_OneSchemaId ==
  Joined =>
    /\ lastResult.schemaId /= <<>>
    /\ PayloadNames(lastResult.json, lastResult.did, lastResult.schemaId)
    /\ lastResult.chainRes.ok =>
         \E i \in 1..Len(chain) :
           /\ chain[i].id = lastResult.schemaId
           /\ chain[i].json = lastResult.json
    /\ lastResult.uploadRes.ok => OnFileServer(lastResult.schemaId, lastResult.schema)
    /\ \A f \in fileServer : \E n \in 1..(nextUuid - 1) : f.schemaId = uuid(n)
    /\ \A i \in 1..Len(chain) : \E n \in 1..(nextUuid - 1) : chain[i].id = uuid(n)
    /\ lastResult.ok =>
         /\ lastResult.value.schemaId = lastResult.schemaId
         /\ lastResult.value.did = lastResult.did

\* a createSchema returned its result and the id of the result is the one
\* on-chain and on the file server
C19_Witness ==
  /\ Joined
  /\ lastResult.ok
  /\ lastResult.uploadRes.ok
  /\ lastResult.value.schemaId = lastResult.schemaId
  /\ OnChain(lastResult.schemaId)
  /\ OnFileServer(lastResult.schemaId, lastResult.schema)
  /\ PayloadNames(lastResult.json, lastResult.did, lastResult.schemaId)

====
